---- MODULE Spec2Model ----
(***************************************************************************)
(* Model of the 3D mesh ingestion and slicing subsystem of the Wire-EDM    *)
(* simulator: ModelFileParser.parseFile and its helpers                    *)
(* (src/src/utils/fileParser.ts).                                          *)
(*                                                                         *)
(* Numbers.  A JavaScript number is modelled as an exact fraction          *)
(* [n |-> numerator, d |-> denominator] in lowest terms with d >= 0.       *)
(* d = 0 encodes the three non-finite values of IEEE arithmetic:           *)
(* 1/0 = +Infinity, -1/0 = -Infinity, 0/0 = NaN.  Finite arithmetic is     *)
(* exact (no rounding); Math.sqrt is rounded down to a decimal grid.       *)
(***************************************************************************)
EXTENDS Integers, Sequences, FiniteSets, TLC

(***************************************************************************)
(* JavaScript numbers                                                      *)
(***************************************************************************)
AbsInt(i) == IF i < 0 THEN -i ELSE i

SignInt(i) == IF i < 0 THEN -1 ELSE IF i > 0 THEN 1 ELSE 0

RECURSIVE Gcd(_, _)
Gcd(a, b) == IF b = 0 THEN a ELSE Gcd(b, a % b)

\* the fraction n/d in lowest terms; d = 0 gives +Infinity, -Infinity or NaN
Num(n, d) ==
  IF d = 0 THEN [n |-> SignInt(n), d |-> 0]
  ELSE LET g == Gcd(AbsInt(n), AbsInt(d))
           s == IF d < 0 THEN -1 ELSE 1
       IN  [n |-> s * (n \div g), d |-> s * (d \div g)]

I(i) == [n |-> i, d |-> 1]

NaN == [n |-> 0, d |-> 0]

Infinity == [n |-> 1, d |-> 0]

NegInfinity == [n |-> -1, d |-> 0]

IsNaN(a) == a.d = 0 /\ a.n = 0

IsFinite(a) == a.d # 0

Neg(a) == [n |-> -a.n, d |-> a.d]

\* a + b
Add(a, b) ==
  IF a.d = 0 \/ b.d = 0
  THEN IF IsNaN(a) \/ IsNaN(b) THEN NaN
       ELSE IF a.d = 0 /\ b.d = 0 THEN (IF a.n = b.n THEN a ELSE NaN)
       ELSE IF a.d = 0 THEN a ELSE b
  ELSE LET g == Gcd(a.d, b.d)
       IN  Num(a.n * (b.d \div g) + b.n * (a.d \div g), (a.d \div g) * b.d)

Sub(a, b) == Add(a, Neg(b))

\* a * b
Mul(a, b) ==
  IF a.d = 0 \/ b.d = 0
  THEN Num(a.n * b.n, 0)
  ELSE LET g1 == Gcd(AbsInt(a.n), b.d)
           g2 == Gcd(AbsInt(b.n), a.d)
       IN  Num((a.n \div g1) * (b.n \div g2), (a.d \div g2) * (b.d \div g1))

\* a / b; a finite non-zero number over zero is an infinity, 0/0 is NaN
Div(a, b) ==
  IF b.d = 0
  THEN IF IsNaN(a) \/ IsNaN(b) \/ a.d = 0 THEN NaN ELSE I(0)
  ELSE IF b.n = 0
  THEN Num(a.n, 0)
  ELSE Mul(a, Num(b.d, b.n))

\* a < b; false as soon as one side is NaN
Lt(a, b) ==
  IF IsNaN(a) \/ IsNaN(b) THEN FALSE
  ELSE IF a.d = 0 /\ b.d = 0 THEN a.n < b.n
  ELSE a.n * b.d < b.n * a.d

Le(a, b) ==
  IF IsNaN(a) \/ IsNaN(b) THEN FALSE
  ELSE IF a.d = 0 /\ b.d = 0 THEN a.n <= b.n
  ELSE a.n * b.d <= b.n * a.d

Gt(a, b) == Lt(b, a)

Ge(a, b) == Le(b, a)

\* Math.abs
MathAbs(a) == [n |-> AbsInt(a.n), d |-> a.d]

\* Math.min and Math.max of two numbers: NaN as soon as one argument is NaN
MathMin(a, b) == IF IsNaN(a) \/ IsNaN(b) THEN NaN ELSE IF Lt(b, a) THEN b ELSE a

MathMax(a, b) == IF IsNaN(a) \/ IsNaN(b) THEN NaN ELSE IF Lt(a, b) THEN b ELSE a

\* floor of the square root of a natural number (Newton iteration from above)
RECURSIVE IsqrtFrom(_, _)
IsqrtFrom(k, x) ==
  LET y == (x + k \div x) \div 2
  IN  IF y >= x THEN x ELSE IsqrtFrom(k, y)

Isqrt(k) == IF k < 2 THEN k ELSE IsqrtFrom(k, k \div 2 + 1)

\* the decimal grid Math.sqrt is rounded to: finer for smaller arguments,
\* as the spacing of floating-point numbers is
SqrtGrid(a) ==
  LET whole == a.n \div a.d
  IN  IF whole >= 1000000 THEN 1 ELSE IF whole >= 10000 THEN 10 ELSE 100

\* Math.sqrt: NaN for NaN and for negative arguments
MathSqrt(a) ==
  IF IsNaN(a) \/ a.n < 0 THEN NaN
  ELSE IF a.d = 0 THEN Infinity
  ELSE LET s == SqrtGrid(a)
           whole == a.n \div a.d
           frac == a.n % a.d
           scaled == whole * s * s + (frac * s * s) \div a.d
       IN  Num(Isqrt(scaled), s)

(***************************************************************************)
(* THREE.Vector3: a vector is a triple <<x, y, z>> of numbers               *)
(***************************************************************************)
Vec(x, y, z) == <<x, y, z>>

VSub(a, b) == <<Sub(a[1], b[1]), Sub(a[2], b[2]), Sub(a[3], b[3])>>

\* a.dot(b)
Dot(a, b) == Add(Add(Mul(a[1], b[1]), Mul(a[2], b[2])), Mul(a[3], b[3]))

\* a.cross(b)
Cross(a, b) ==
  <<Sub(Mul(a[2], b[3]), Mul(a[3], b[2])),
    Sub(Mul(a[3], b[1]), Mul(a[1], b[3])),
    Sub(Mul(a[1], b[2]), Mul(a[2], b[1]))>>

\* a.length()
Length(a) == MathSqrt(Dot(a, a))

\* a.distanceTo(b)
DistanceTo(a, b) == Length(VSub(a, b))

\* a.clone().lerp(b, t): each component x + (b.x - x) * t
Lerp(a, b, t) ==
  <<Add(a[1], Mul(Sub(b[1], a[1]), t)),
    Add(a[2], Mul(Sub(b[2], a[2]), t)),
    Add(a[3], Mul(Sub(b[3], a[3]), t))>>

(***************************************************************************)
(* THREE.BufferGeometry.  position is the flat array of the position        *)
(* attribute (3 numbers per vertex) and index the index array; a geometry   *)
(* without the attribute or without an index holds the value below.  TLA+   *)
(* sequences start at 1, so element i of an array is seq[i + 1].            *)
(***************************************************************************)
\* geometry.attributes.position of a geometry without position attribute;
\* one with the attribute holds [array |-> the flat array]
NoAttribute == [isUndefined |-> TRUE]

\* geometry.index of a geometry without index; an indexed one holds
\* [array |-> the index array]
NoIndex == [isNull |-> TRUE]

\* An array offset is a natural number, or NaNOffset for the NaN that
\* undefined * 3 evaluates to: NaNOffset, NaNOffset + 1 and NaNOffset + 2 are
\* all outside every array, as NaN, NaN + 1 and NaN + 2 are.
NaNOffset == -3

\* positions[a] for a computed offset a; a read outside the array is
\* undefined, which the Vector3 arithmetic turns into NaN
ArrayAt(array, a) == IF a >= 0 /\ a < Len(array) THEN array[a + 1] ELSE NaN

\* indices[i] * 3; indices[i] is undefined past the end of the index array
IndexOffset(indices, i) == IF i < Len(indices) THEN indices[i + 1] * 3 ELSE NaNOffset

\* new THREE.Vector3(positions[a], positions[a + 1], positions[a + 2])
VertexAt(positions, a) ==
  Vec(ArrayAt(positions, a), ArrayAt(positions, a + 1), ArrayAt(positions, a + 2))

\* geometry.attributes.position.count
PositionCount(positions) == Len(positions) \div 3

\* the triangle an iteration i of the indexed loops reads:
\* a = indices[i] * 3, b = indices[i + 1] * 3, c = indices[i + 2] * 3
IndexedTriangle(positions, indices, i) ==
  <<VertexAt(positions, IndexOffset(indices, i)),
    VertexAt(positions, IndexOffset(indices, i + 1)),
    VertexAt(positions, IndexOffset(indices, i + 2))>>

\* the triangle an iteration i of the non-indexed loops reads: positions[i .. i + 8]
SequentialTriangle(positions, i) ==
  <<VertexAt(positions, i), VertexAt(positions, i + 3), VertexAt(positions, i + 6)>>

\* v1.dot(v2.cross(v3)) / 6
SignedVolume(v1, v2, v3) == Div(Dot(v1, Cross(v2, v3)), I(6))

\* for (let i = 0; i < indices.length; i += 3) volume += ...
RECURSIVE VolumeIndexedLoop(_, _, _, _)
VolumeIndexedLoop(positions, indices, i, volume) ==
  IF i < Len(indices)
  THEN LET t == IndexedTriangle(positions, indices, i)
       IN  VolumeIndexedLoop(positions, indices, i + 3,
                             Add(volume, SignedVolume(t[1], t[2], t[3])))
  ELSE volume

\* the non-indexed loop with the stride of the indexed one, i += 3
RECURSIVE VolumeSequentialLoopStride3(_, _, _)
VolumeSequentialLoopStride3(positions, i, volume) ==
  IF i < Len(positions)
  THEN LET t == SequentialTriangle(positions, i)
       IN  VolumeSequentialLoopStride3(positions, i + 3,
                                       Add(volume, SignedVolume(t[1], t[2], t[3])))
  ELSE volume

\* for (let i = 0; i < positions.length; i += 9) volume += ...
RECURSIVE VolumeSequentialLoop(_, _, _)
VolumeSequentialLoop(positions, i, volume) ==
  IF i < Len(positions)
  THEN LET t == SequentialTriangle(positions, i)
       IN  VolumeSequentialLoop(positions, i + 9,
                                Add(volume, SignedVolume(t[1], t[2], t[3])))
  ELSE volume

\* calculateVolume without the final Math.abs
calculateVolumeSigned(geometry) ==
  IF geometry.index # NoIndex
  THEN VolumeIndexedLoop(geometry.position.array, geometry.index.array, 0, I(0))
  ELSE VolumeSequentialLoop(geometry.position.array, 0, I(0))

calculateVolume(geometry) ==
  MathAbs(IF geometry.index # NoIndex
          THEN VolumeIndexedLoop(geometry.position.array, geometry.index.array, 0, I(0))
          ELSE VolumeSequentialLoop(geometry.position.array, 0, I(0)))

\* edge1 = v2 - v1, edge2 = v3 - v1, edge1.cross(edge2).length() / 2
TriangleArea(v1, v2, v3) == Div(Length(Cross(VSub(v2, v1), VSub(v3, v1))), I(2))

RECURSIVE AreaIndexedLoop(_, _, _, _)
AreaIndexedLoop(positions, indices, i, area) ==
  IF i < Len(indices)
  THEN LET t == IndexedTriangle(positions, indices, i)
       IN  AreaIndexedLoop(positions, indices, i + 3,
                           Add(area, TriangleArea(t[1], t[2], t[3])))
  ELSE area

RECURSIVE AreaSequentialLoop(_, _, _)
AreaSequentialLoop(positions, i, area) ==
  IF i < Len(positions)
  THEN LET t == SequentialTriangle(positions, i)
       IN  AreaSequentialLoop(positions, i + 9,
                              Add(area, TriangleArea(t[1], t[2], t[3])))
  ELSE area

\* calculateSurfaceArea with area = ... for area += ...: the area of the
\* last triangle alone
calculateSurfaceAreaLastOnly(geometry) ==
  IF geometry.index # NoIndex
  THEN IF Len(geometry.index.array) = 0 THEN I(0)
       ELSE AreaIndexedLoop(geometry.position.array, geometry.index.array,
                            3 * ((Len(geometry.index.array) - 1) \div 3), I(0))
  ELSE IF Len(geometry.position.array) = 0 THEN I(0)
       ELSE AreaSequentialLoop(geometry.position.array,
                               9 * ((Len(geometry.position.array) - 1) \div 9), I(0))

calculateSurfaceArea(geometry) ==
  IF geometry.index # NoIndex
  THEN AreaIndexedLoop(geometry.position.array, geometry.index.array, 0, I(0))
  ELSE AreaSequentialLoop(geometry.position.array, 0, I(0))

(***************************************************************************)
(* Slicing                                                                 *)
(***************************************************************************)
\* the slicing tolerance of generateSliceContour, 0.1
tolerance == Num(1, 10)

\* the edge test with the parameter t clamped to the edge and without the
\* assignment intersection.z = z: the point keeps the Z the interpolation gives
EdgeIntersectionClampedOnEdge(start, end, z, tol) ==
  LET above == Add(z, tol)
      below == Sub(z, tol)
  IN  IF (Le(start[3], above) /\ Ge(end[3], below))
           \/ (Ge(start[3], below) /\ Le(end[3], above))
      THEN IF Gt(MathAbs(Sub(start[3], end[3])), tol)
           THEN LET t == Div(Sub(z, start[3]), Sub(end[3], start[3]))
                    clamped == MathMax(I(0), MathMin(I(1), t))
                IN  <<Lerp(start, end, clamped)>>
           ELSE <<>>
      ELSE <<>>

\* lines 261-272: the callback of edges.forEach on one edge [start, end]:
\* the intersection of the edge with the plane Z = z, as a sequence of 0 or 1 points
EdgeIntersection(start, end, z, tol) ==
  LET above == Add(z, tol)
      below == Sub(z, tol)
  IN  IF (Le(start[3], above) /\ Ge(end[3], below))
           \/ (Ge(start[3], below) /\ Le(end[3], above))
      THEN IF Gt(MathAbs(Sub(start[3], end[3])), tol)
           THEN LET t == Div(Sub(z, start[3]), Sub(end[3], start[3]))
                    intersection == Lerp(start, end, t)
                IN  << <<intersection[1], intersection[2], z>> >>
           ELSE <<>>
      ELSE <<>>

\* the edges visited from the last one: [v3, v1], [v2, v3], [v1, v2]
getTriangleZPlaneIntersectionsFromLastEdge(v1, v2, v3, z, tol) ==
  EdgeIntersection(v3, v1, z, tol) \o EdgeIntersection(v2, v3, z, tol)
    \o EdgeIntersection(v1, v2, z, tol)

\* edges [v1, v2], [v2, v3], [v3, v1] in this order
getTriangleZPlaneIntersections(v1, v2, v3, z, tol) ==
  EdgeIntersection(v1, v2, z, tol) \o EdgeIntersection(v2, v3, z, tol)
    \o EdgeIntersection(v3, v1, z, tol)

\* remaining.shift(): the first point leaves the pool, whichever point was chosen
RemoveFirst(seq, k) == Tail(seq)

\* remaining.splice(k, 1), k counted from 1
RemoveAt(seq, k) == [j \in 1..(Len(seq) - 1) |-> IF j < k THEN seq[j] ELSE seq[j + 1]]

\* the inner loop with the test distance <= nearestDistance: of the points at
\* the least distance from current, the last one
RECURSIVE NearestIndexLastTie(_, _, _, _, _)
NearestIndexLastTie(current, remaining, i, nearestIndex, nearestDistance) ==
  IF i > Len(remaining) THEN nearestIndex
  ELSE LET distance == DistanceTo(current, remaining[i])
       IN  IF Le(distance, nearestDistance)
           THEN NearestIndexLastTie(current, remaining, i + 1, i, distance)
           ELSE NearestIndexLastTie(current, remaining, i + 1, nearestIndex, nearestDistance)

\* the inner loop of sortContourPoints: the index (from 1) of the first point
\* of remaining at the least distance from current
RECURSIVE NearestIndex(_, _, _, _, _)
NearestIndex(current, remaining, i, nearestIndex, nearestDistance) ==
  IF i > Len(remaining) THEN nearestIndex
  ELSE LET distance == DistanceTo(current, remaining[i])
       IN  IF Lt(distance, nearestDistance)
           THEN NearestIndex(current, remaining, i + 1, i, distance)
           ELSE NearestIndex(current, remaining, i + 1, nearestIndex, nearestDistance)

\* the while loop of sortContourPoints
RECURSIVE StitchLoop(_, _)
StitchLoop(sorted, remaining) ==
  IF Len(remaining) > 0
  THEN LET current == sorted[Len(sorted)]
           k == NearestIndex(current, remaining, 2, 1, DistanceTo(current, remaining[1]))
       IN  StitchLoop(Append(sorted, remaining[k]), RemoveAt(remaining, k))
  ELSE sorted

sortContourPoints(points) ==
  IF Len(points) <= 2 THEN points
  ELSE StitchLoop(<<points[1]>>, Tail(points))

\* the loop of generateSliceContour over the index array
RECURSIVE ContourLoop(_, _, _, _, _)
ContourLoop(positions, indices, z, i, contour) ==
  IF i < Len(indices)
  THEN LET t == IndexedTriangle(positions, indices, i)
       IN  ContourLoop(positions, indices, z, i + 3,
                       contour \o getTriangleZPlaneIntersections(t[1], t[2], t[3], z, tolerance))
  ELSE contour

\* a loop over the triangles of a non-indexed geometry, 9 numbers each
RECURSIVE ContourSequentialLoop(_, _, _, _)
ContourSequentialLoop(positions, z, i, contour) ==
  IF i < Len(positions)
  THEN LET t == SequentialTriangle(positions, i)
       IN  ContourSequentialLoop(positions, z, i + 9,
                                 contour \o getTriangleZPlaneIntersections(t[1], t[2], t[3], z, tolerance))
  ELSE contour

\* generateSliceContour with an else branch for non-indexed geometries, as
\* calculateVolume and calculateSurfaceArea have
generateSliceContourAnyMesh(geometry, z) ==
  LET contour == IF geometry.index # NoIndex
                 THEN ContourLoop(geometry.position.array, geometry.index.array, z, 0, <<>>)
                 ELSE ContourSequentialLoop(geometry.position.array, z, 0, <<>>)
  IN  IF Len(contour) > 2 THEN sortContourPoints(contour) ELSE contour

generateSliceContour(geometry, z) ==
  LET contour == IF geometry.index # NoIndex
                 THEN ContourLoop(geometry.position.array, geometry.index.array, z, 0, <<>>)
                 ELSE <<>>
  IN  IF Len(contour) > 2 THEN sortContourPoints(contour) ELSE contour

\* the number of slices of generateCuttingPaths
sliceCount == 20

\* the height of slicing plane i
SliceZ(boundingBox, i) ==
  LET minZ == boundingBox.min[3]
      maxZ == boundingBox.max[3]
      sliceHeight == Div(Sub(maxZ, minZ), I(sliceCount))
  IN  Add(minZ, Mul(I(i), sliceHeight))

\* the loop with paths.unshift(slicePath): the latest contour comes first
RECURSIVE SliceLoopDescending(_, _, _)
SliceLoopDescending(geometry, i, paths) ==
  IF i <= sliceCount
  THEN LET slicePath == generateSliceContour(geometry, SliceZ(geometry.boundingBox, i))
       IN  SliceLoopDescending(geometry, i + 1,
                               IF Len(slicePath) > 0 THEN <<slicePath>> \o paths ELSE paths)
  ELSE paths

\* the loop with the bound i < sliceCount: the last plane is never sampled
RECURSIVE SliceLoopExclusive(_, _, _)
SliceLoopExclusive(geometry, i, paths) ==
  IF i < sliceCount
  THEN LET slicePath == generateSliceContour(geometry, SliceZ(geometry.boundingBox, i))
       IN  SliceLoopExclusive(geometry, i + 1,
                              IF Len(slicePath) > 0 THEN Append(paths, slicePath) ELSE paths)
  ELSE paths

\* for (let i = 0; i <= sliceCount; i++) ...
RECURSIVE SliceLoop(_, _, _)
SliceLoop(geometry, i, paths) ==
  IF i <= sliceCount
  THEN LET slicePath == generateSliceContour(geometry, SliceZ(geometry.boundingBox, i))
       IN  SliceLoop(geometry, i + 1,
                     IF Len(slicePath) > 0 THEN Append(paths, slicePath) ELSE paths)
  ELSE paths

generateCuttingPaths(geometry) == SliceLoop(geometry, 0, <<>>)

(***************************************************************************)
(* Bounding box and normalisation (parseFile, "Center and scale")          *)
(***************************************************************************)
\* Box3.expandByPoint over the vertices from vertex k on
RECURSIVE ExpandBox(_, _, _)
ExpandBox(positions, k, box) ==
  IF k >= PositionCount(positions) THEN box
  ELSE LET v == VertexAt(positions, 3 * k)
       IN  ExpandBox(positions, k + 1,
             [min |-> <<MathMin(box.min[1], v[1]), MathMin(box.min[2], v[2]),
                        MathMin(box.min[3], v[3])>>,
              max |-> <<MathMax(box.max[1], v[1]), MathMax(box.max[2], v[2]),
                        MathMax(box.max[3], v[3])>>])

\* Box3.makeEmpty
EmptyBox ==
  [min |-> <<Infinity, Infinity, Infinity>>, max |-> <<NegInfinity, NegInfinity, NegInfinity>>]

\* geometry.computeBoundingBox()
computeBoundingBox(positions) == ExpandBox(positions, 0, EmptyBox)

\* Box3.isEmpty
BoxIsEmpty(box) ==
  Lt(box.max[1], box.min[1]) \/ Lt(box.max[2], box.min[2]) \/ Lt(box.max[3], box.min[3])

\* boundingBox.getCenter(...)
BoxCenter(box) ==
  IF BoxIsEmpty(box) THEN <<I(0), I(0), I(0)>>
  ELSE <<Mul(Add(box.min[1], box.max[1]), Num(1, 2)),
         Mul(Add(box.min[2], box.max[2]), Num(1, 2)),
         Mul(Add(box.min[3], box.max[3]), Num(1, 2))>>

\* boundingBox.getSize(...)
BoxSize(box) ==
  IF BoxIsEmpty(box) THEN <<I(0), I(0), I(0)>> ELSE VSub(box.max, box.min)

\* the edge of the cube the geometry is scaled to fit in
TargetSize == 100

\* const scale = 100 / maxDimension, without a test of maxDimension
NormalizeScale(maxDimension) == Div(I(TargetSize), maxDimension)

\* geometry.translate(-center.x, -center.y, -center.z) on the position array
Translate(positions, center) ==
  [j \in 1..Len(positions) |-> Add(positions[j], Neg(center[((j - 1) % 3) + 1]))]

\* geometry.scale(scale, scale, scale) on the position array
Scale(positions, scale) == [j \in 1..Len(positions) |-> Mul(scale, positions[j])]

\* lines 77-86: the normalised position array
Normalize(positions) ==
  LET boundingBox == computeBoundingBox(positions)
      center == BoxCenter(boundingBox)
      size == BoxSize(boundingBox)
      maxDimension == MathMax(MathMax(size[1], size[2]), size[3])
  IN  Scale(Translate(positions, center), NormalizeScale(maxDimension))

(***************************************************************************)
(* File names.  A name is a sequence of characters.                        *)
(***************************************************************************)
\* String.prototype.toLowerCase on one character
LowerChar(c) ==
  CASE c = "S" -> "s" [] c = "T" -> "t" [] c = "L" -> "l"
    [] c = "O" -> "o" [] c = "B" -> "b" [] c = "J" -> "j"
    [] c = "P" -> "p" [] c = "Y" -> "y" [] c = "M" -> "m"
    [] OTHER -> c

toLowerCase(name) == [j \in 1..Len(name) |-> LowerChar(name[j])]

\* name.split('.').pop(): the characters after the last dot, the whole name
\* when it has no dot
RECURSIVE SplitPop(_, _)
SplitPop(name, segment) ==
  IF name = <<>> THEN segment
  ELSE IF Head(name) = "." THEN SplitPop(Tail(name), <<>>)
  ELSE SplitPop(Tail(name), Append(segment, Head(name)))

\* const extension = file.name.toLowerCase().split('.').pop()
Extension(name) == SplitPop(toLowerCase(name), <<>>)

Stl == <<"s", "t", "l">>

Obj == <<"o", "b", "j">>

Ply == <<"p", "l", "y">>

\* a switch whose default case falls into the PLY case
LoaderForDefaultPly(extension) ==
  CASE extension = Stl -> "stlLoader"
    [] extension = Obj -> "objLoader"
    [] OTHER -> "plyLoader"

\* the cases of the switch on the extension that call a loader
LoaderFor(extension) ==
  CASE extension = Stl -> "stlLoader"
    [] extension = Obj -> "objLoader"
    [] extension = Ply -> "plyLoader"
    [] OTHER -> "none"

(***************************************************************************)
(* parseFile                                                               *)
(***************************************************************************)
UnsupportedFormat == "Unsupported file format"

MissingPositions == "Invalid geometry: missing position attributes"

FailedToParse == "Failed to parse file"

\* a failure value that carries no error
FailureWithoutError(message) == [success |-> FALSE]

Failure(message) == [success |-> FALSE, error |-> message]

Success(parsedModel) == [success |-> TRUE, model |-> parsedModel]

Return(value) == [kind |-> "return", value |-> value]

Throw(at) == [kind |-> "throw", at |-> at]

\* lines 71-125: the path of parseFile from a geometry that has a position
\* attribute to the returned value
Assemble(position, index) ==
  LET normalized == Normalize(position)
      geometry == [position |-> [array |-> normalized], index |-> index, normal |-> TRUE,
                   boundingBox |-> computeBoundingBox(normalized)]
      vertices == PositionCount(normalized)
      faces == IF index # NoIndex THEN Num(Len(index.array), 3) ELSE Num(vertices, 3)
  IN  [geometry |-> geometry,
       boundingBox |-> geometry.boundingBox,
       cuttingPaths |-> generateCuttingPaths(geometry),
       metadata |-> [vertices |-> vertices, faces |-> faces,
                     volume |-> calculateVolume(geometry),
                     surfaceArea |-> calculateSurfaceArea(geometry)]]

\* lines 42-125: the body of the try block after the await, given what the
\* loader did ("none" when the extension selects no loader)
TryBody(extension, loaded) ==
  IF LoaderFor(extension) = "none" THEN Return(Failure(UnsupportedFormat))
  ELSE IF loaded.kind = "throw" THEN Throw("decode")
  ELSE IF loaded.position = NoAttribute THEN Return(Failure(MissingPositions))
  ELSE Return(Success(Assemble(loaded.position.array, loaded.index)))

\* a try statement without the catch clause: the exception propagates
CatchNothing(completion) == completion

\* lines 127-132: catch (error) { return {success: false, error: ...} }
Catch(completion) ==
  IF completion.kind = "throw" THEN Return(Failure(FailedToParse)) ELSE completion

\* how the promise returned by parseFile settles
Settle(completion) == Catch(completion)

(***************************************************************************)
(* Inputs: the files given to parseFile and what a loader can return       *)
(***************************************************************************)
\* the most vertices of a decoded geometry
MaxVerts == 3

\* the most entries of a decoded index array
MaxIndexLen == 3

\* the points the vertices of a decoded geometry are drawn from
PointPool == {<<0, 0, 0>>, <<2, 0, 1>>, <<0, 1, 2>>}

FileNames ==
  {<<"m", ".", "s", "t", "l">>, <<"M", ".", "S", "T", "L">>, <<"s", "t", "l">>,
   <<"m", ".", "O", "b", "j">>, <<"m", ".", "x", ".", "p", "l", "y">>,
   <<"m", ".", "x", "y", "z">>, <<"m", ".", "s", "t", "l", ".", "x">>, <<"m", ".">>}

SeqsUpTo(S, n) == UNION {[1..k -> S] : k \in 0..n}

\* the flat position array of a list of vertices
RECURSIVE Flatten(_)
Flatten(verts) ==
  IF verts = <<>> THEN <<>>
  ELSE <<I(Head(verts)[1]), I(Head(verts)[2]), I(Head(verts)[3])>> \o Flatten(Tail(verts))

\* the vertex lists of the decoded geometries: up to MaxVerts points of the
\* pool, pairwise distinct or all the same point
VertexLists ==
  {verts \in SeqsUpTo(PointPool, MaxVerts) :
     \/ \A j, k \in 1..Len(verts) : j # k => verts[j] # verts[k]
     \/ \A j, k \in 1..Len(verts) : verts[j] = verts[k]}

\* the index arrays a loader can return with n vertices: no loader checks
\* an entry against the number of vertices or the length against 3
IndexArrays(n) == SeqsUpTo(0..n, MaxIndexLen)

\* the geometries a loader can return: with or without a position attribute,
\* with or without an index
Geometries ==
  {[kind |-> "geometry", position |-> NoAttribute, index |-> NoIndex]}
    \cup UNION {{[kind |-> "geometry", position |-> [array |-> Flatten(verts)],
                  index |-> index] :
                   index \in {NoIndex} \cup {[array |-> a] : a \in IndexArrays(Len(verts))}} :
                verts \in VertexLists}

\* what a call of a loader can do: throw (a file the format's grammar
\* rejects; for OBJ also a file without any object, where children[0] is
\* undefined), or return a geometry; the STL loader returns triangle lists
\* without an index
LoaderOutcomes(loader) ==
  {Throw("decode")}
    \cup IF loader = "stlLoader"
         THEN {g \in Geometries : g.index = NoIndex /\ g.position # NoAttribute
                                    /\ PositionCount(g.position.array) % 3 = 0}
         ELSE Geometries

(***************************************************************************)
(* Binary floating point.  cutProgress.current is the one number of the    *)
(* program that accumulates rounding: it is modelled as the IEEE 754       *)
(* double it is, written as three limbs <<a, b, c>> of 21 bits, the value  *)
(* being (a * 2^42 + b * 2^21 + c) * 2^-56.  Every double from 0.0625 up   *)
(* to 128 is such a multiple of 2^-56                                      *)
(***************************************************************************)
LimbBase == 2^21

\* the double 0
FloatZero == <<0, 0, 0>>

\* the double 100
Hundred == <<1638400, 0, 0>>

\* the double nearest to 0.1, 0x1.999999999999ap-4
Tenth == <<1638, 838860, 1677722>>

\* the double nearest to 0.2, 0x1.999999999999ap-3
Fifth == <<3276, 1677721, 1258292>>

\* the limbs of a sum after the carries
Carry(a, b, c) ==
  LET b1 == b + c \div LimbBase
  IN  <<a + b1 \div LimbBase, b1 % LimbBase, c % LimbBase>>

\* x + y without rounding
ExactSum(x, y) == Carry(x[1] + y[1], x[2] + y[2], x[3] + y[3])

\* x < y, x <= y
FloatLt(x, y) ==
  \/ x[1] < y[1]
  \/ x[1] = y[1] /\ x[2] < y[2]
  \/ x[1] = y[1] /\ x[2] = y[2] /\ x[3] < y[3]

FloatLe(x, y) == x = y \/ FloatLt(x, y)

\* the number of bits of a positive integer
RECURSIVE BitLength(_)
BitLength(k) == IF k = 0 THEN 0 ELSE 1 + BitLength(k \div 2)

\* the unit in the last place of a number, in units of 2^-56: a double keeps
\* 53 bits, the top limb holding the bits from 2^42 up
Ulp(x) == IF x[1] < 1024 THEN 1 ELSE 2^(BitLength(x[1]) - 11)

\* round to nearest, ties to even, the rounding of every arithmetic
\* operation of a JavaScript number
RoundToDouble(x) ==
  LET ulp  == Ulp(x)
      rest == x[3] % ulp
      down == x[3] - rest
      odd  == (down \div ulp) % 2 = 1
  IN  IF rest = 0 THEN x
      ELSE IF 2 * rest > ulp \/ (2 * rest = ulp /\ odd)
      THEN Carry(x[1], x[2], down + ulp)
      ELSE <<x[1], x[2], down>>

\* x + y truncated instead of rounded
FloatAddTruncating(x, y) ==
  LET sum == ExactSum(x, y)
  IN  <<sum[1], sum[2], sum[3] - (sum[3] % Ulp(sum))>>

\* x + y of two doubles
FloatAdd(x, y) == RoundToDouble(ExactSum(x, y))

(***************************************************************************)
(* State                                                                   *)
(***************************************************************************)
VARIABLES
  pc,           \* the call of parseFile: "idle", "awaitArrayBuffer", "fulfilled", "rejected"
  file,         \* the File argument of the call
  extension,    \* const extension
  loaderCalls,  \* the loaders this call has invoked, in order
  loaded,       \* what the invoked loader did, NotLoaded before
  raised,       \* where this call raised an exception, "none" if nowhere
  result,       \* the value the promise is fulfilled with, Pending before
  mesh,         \* the geometry given to calculateVolume and calculateSurfaceArea
  parts,        \* <<A, B>> when mesh is the concatenation of A and B, else <<>>
  contour,      \* the points collected at one height, before they are stitched
  measured      \* the last metric computed on mesh, NotMeasured before

\* FileUploadPanel and App
VARIABLES
  uploads,          \* the calls of handleFileSelect, in order: one record per call
  isUploading,      \* FileUploadPanel state
  uploadProgress,   \* FileUploadPanel state
  error,            \* FileUploadPanel state, NoError for null
  timeouts,         \* the pending setTimeout callbacks, in the order they were scheduled
  uploadedModel,    \* App state, NoModel for null
  showCuttingPaths, \* App state
  removedSince      \* history: handleRemoveModel has run since the last file selection

\* Model3DViewer (ModelMesh), CuttingSimulation and App
VARIABLES
  modelMesh,           \* the props ModelMesh was last rendered with, NotMounted before
  rotationY,           \* meshRef.current.rotation.y
  lines,               \* the children of cuttingPathsRef.current: one point list per THREE.Line
  currentShape,        \* CuttingSimulation state, Unmounted before the component mounts
  uploadedShape,       \* shapes3D.uploaded as the last render of CuttingSimulation computed it
  cutProgress,         \* CuttingSimulation: cutProgress.current
  isComplete,          \* CuttingSimulation state
  showCutPiece,        \* CuttingSimulation state
  sparkParticles,      \* CuttingSimulation: sparkParticles.current
  isSimulationRunning, \* App state, the prop isRunning of CuttingSimulation
  wireSpeed,           \* App state: parameters.wireSpeed
  cutPieceTimers,      \* the pending callbacks () => setShowCutPiece(true) of the mounted component
  frames               \* history: the frames that advanced cutProgress since it was last 0

vars ==
  <<pc, file, extension, loaderCalls, loaded, raised, result, mesh, parts, contour, measured,
    uploads, isUploading, uploadProgress, error, timeouts, uploadedModel, showCuttingPaths,
    removedSince,
    modelMesh, rotationY, lines, currentShape, uploadedShape, cutProgress, isComplete,
    showCutPiece, sparkParticles, isSimulationRunning, wireSpeed, cutPieceTimers, frames>>

viewVars ==
  <<modelMesh, rotationY, lines, currentShape, uploadedShape, cutProgress, isComplete,
    showCutPiece, sparkParticles, isSimulationRunning, wireSpeed, cutPieceTimers, frames>>

\* ModelMesh has not rendered yet
NotMounted == [mounted |-> FALSE]

\* CuttingSimulation has not rendered yet
Unmounted == "unmounted"

\* App.tsx line 29: the initial parameters.wireSpeed
DefaultWireSpeed == 250

\* the App as mounted on the parameters tab: neither Model3DViewer nor
\* CuttingSimulation is rendered; useRef(0), useState(false), useState(false)
ViewIdle ==
  /\ modelMesh = NotMounted
  /\ rotationY = I(0)
  /\ lines = <<>>
  /\ currentShape = Unmounted
  /\ uploadedShape = <<>>
  /\ cutProgress = FloatZero
  /\ isComplete = FALSE
  /\ showCutPiece = FALSE
  /\ sparkParticles = <<>>
  /\ isSimulationRunning = FALSE
  /\ wireSpeed = DefaultWireSpeed
  /\ cutPieceTimers = 0
  /\ frames = 0

uiVars ==
  <<uploads, isUploading, uploadProgress, error, timeouts, uploadedModel, showCuttingPaths,
    removedSince>>

\* error === null
NoError == "null"

\* uploadedModel === null
NoModel == [isNull |-> TRUE]

\* the panel and the App as mounted: useState(false), useState(0), useState(null)
UiIdle ==
  /\ uploads = <<>>
  /\ isUploading = FALSE
  /\ uploadProgress = 0
  /\ error = NoError
  /\ timeouts = <<>>
  /\ uploadedModel = NoModel
  /\ showCuttingPaths = FALSE
  /\ removedSince = FALSE

parseVars == <<pc, file, extension, loaderCalls, loaded, raised, result>>

metricVars == <<mesh, parts, contour, measured>>

NoFile == [none |-> TRUE]

NotLoaded == [kind |-> "none"]

Pending == [pending |-> TRUE]

NoMesh == [position |-> NoAttribute, index |-> NoIndex]

NotMeasured == [op |-> "none"]

\* no call of parseFile has been made
ParserIdle ==
  /\ pc = "idle"
  /\ file = NoFile
  /\ extension = <<>>
  /\ loaderCalls = <<>>
  /\ loaded = NotLoaded
  /\ raised = "none"
  /\ result = Pending

Init ==
  /\ ParserIdle
  /\ mesh = NoMesh
  /\ parts = <<>>
  /\ contour = <<>>
  /\ measured = NotMeasured
  /\ UiIdle
  /\ ViewIdle

\* the promise settles with the completion of the try statement
Finish(completion) ==
  LET settled == Settle(completion)
  IN  /\ pc' = IF settled.kind = "return" THEN "fulfilled" ELSE "rejected"
      /\ result' = IF settled.kind = "return" THEN settled.value ELSE Pending
      /\ raised' = IF completion.kind = "throw" THEN completion.at ELSE "none"

\* a call of parseFile, up to the await of file.arrayBuffer()
ParseFile(f) ==
  /\ pc # "awaitArrayBuffer"
  /\ pc' = "awaitArrayBuffer"
  /\ file' = f
  /\ extension' = Extension(f.name)
  /\ loaderCalls' = <<>>
  /\ loaded' = NotLoaded
  /\ raised' = "none"
  /\ result' = Pending
  /\ UNCHANGED metricVars
  /\ UNCHANGED uiVars
  /\ UNCHANGED viewVars

\* file.arrayBuffer() rejects: the file cannot be read
ArrayBufferRejected ==
  /\ pc = "awaitArrayBuffer"
  /\ Finish(Throw("arrayBuffer"))
  /\ UNCHANGED <<file, extension, loaderCalls, loaded>>
  /\ UNCHANGED metricVars
  /\ UNCHANGED uiVars
  /\ UNCHANGED viewVars

\* file.arrayBuffer() resolves and the extension selects no loader
ArrayBufferResolvedUnsupported ==
  /\ pc = "awaitArrayBuffer"
  /\ LoaderFor(extension) = "none"
  /\ Finish(TryBody(extension, NotLoaded))
  /\ UNCHANGED <<file, extension, loaderCalls, loaded>>
  /\ UNCHANGED metricVars
  /\ UNCHANGED uiVars
  /\ UNCHANGED viewVars

\* file.arrayBuffer() resolves and the rest of parseFile runs with the loader
\* the extension selects
ArrayBufferResolved ==
  /\ pc = "awaitArrayBuffer"
  /\ LoaderFor(extension) # "none"
  /\ \E outcome \in LoaderOutcomes(LoaderFor(extension)) :
       /\ loaderCalls' = Append(loaderCalls, LoaderFor(extension))
       /\ loaded' = outcome
       /\ Finish(TryBody(extension, outcome))
  /\ UNCHANGED <<file, extension>>
  /\ UNCHANGED metricVars
  /\ UNCHANGED uiVars
  /\ UNCHANGED viewVars

Next ==
  \/ \E name \in FileNames : ParseFile([name |-> name])
  \/ ArrayBufferRejected
  \/ ArrayBufferResolvedUnsupported
  \/ ArrayBufferResolved

Spec == Init /\ [][Next]_vars

(***************************************************************************)
(* The metrics as functions of a geometry: calculateVolume and             *)
(* calculateSurfaceArea applied to bounded meshes                          *)
(***************************************************************************)
\* the most vertices of a non-indexed mesh, and the most entries of an
\* index array, given to the metrics
MaxEntries == 6

\* the vertices of the indexed meshes, and the points of the non-indexed ones
MetricPool == << <<1, 0, 0>>, <<0, -2, 0>>, <<0, 0, 3>> >>

MetricPoints == {MetricPool[j] : j \in 1..Len(MetricPool)}

\* non-indexed meshes of up to MaxEntries vertices, and indexed meshes over
\* the vertices of MetricPool whose index array has up to MaxEntries entries,
\* one value of which names no vertex
MetricMeshes ==
  {[position |-> [array |-> Flatten(verts)], index |-> NoIndex] :
     verts \in SeqsUpTo(MetricPoints, MaxEntries)}
    \cup {[position |-> [array |-> Flatten(MetricPool)], index |-> [array |-> a]] :
            a \in SeqsUpTo(0..Len(MetricPool), MaxEntries)}

\* the index array names only existing vertices, three per triangle
IndexWellFormed(index, vertexCount) ==
  /\ Len(index.array) % 3 = 0
  /\ \A j \in 1..Len(index.array) : index.array[j] < vertexCount

\* the mesh is a list of whole triangles over existing vertices
MeshWellFormed(g) ==
  /\ g.position # NoAttribute
  /\ IF g.index # NoIndex
     THEN IndexWellFormed(g.index, PositionCount(g.position.array))
     ELSE Len(g.position.array) % 9 = 0

\* the number of triangles of a well-formed mesh
TriangleCount(g) ==
  IF g.index # NoIndex THEN Len(g.index.array) \div 3 ELSE Len(g.position.array) \div 9

\* the mesh whose vertices are those of a followed by those of b and whose
\* triangles are those of a followed by those of b
Concat(a, b) ==
  [position |-> [array |-> a.position.array \o b.position.array],
   index |-> IF a.index # NoIndex
             THEN [array |-> a.index.array
                     \o [j \in 1..Len(b.index.array) |->
                           b.index.array[j] + PositionCount(a.position.array)]]
             ELSE NoIndex]

MetricsInit ==
  /\ ParserIdle
  /\ mesh \in MetricMeshes
  /\ parts = <<>>
  /\ contour = <<>>
  /\ measured = NotMeasured
  /\ UiIdle
  /\ ViewIdle

MeasureVolume ==
  /\ mesh # NoMesh
  /\ measured' = [op |-> "calculateVolume", value |-> calculateVolume(mesh)]
  /\ UNCHANGED <<mesh, parts, contour>>
  /\ UNCHANGED parseVars
  /\ UNCHANGED uiVars
  /\ UNCHANGED viewVars

MeasureSurfaceArea ==
  /\ mesh # NoMesh
  /\ measured' = [op |-> "calculateSurfaceArea", value |-> calculateSurfaceArea(mesh)]
  /\ UNCHANGED <<mesh, parts, contour>>
  /\ UNCHANGED parseVars
  /\ UNCHANGED uiVars
  /\ UNCHANGED viewVars

\* the meshes that can be appended to another one: whole triangles, at
\* least one, leaving room for one triangle of the other mesh
ConcatOperands ==
  {m \in MetricMeshes :
     MeshWellFormed(m) /\ TriangleCount(m) > 0 /\ 3 * (TriangleCount(m) + 1) <= MaxEntries}

\* a second mesh of the same kind is appended to the mesh
Concatenate(other) ==
  /\ parts = <<>>
  /\ measured = NotMeasured
  /\ mesh \in ConcatOperands
  /\ (mesh.index = NoIndex) = (other.index = NoIndex)
  /\ 3 * (TriangleCount(mesh) + TriangleCount(other)) <= MaxEntries
  /\ mesh' = Concat(mesh, other)
  /\ parts' = <<mesh, other>>
  /\ UNCHANGED contour
  /\ measured' = NotMeasured
  /\ UNCHANGED parseVars
  /\ UNCHANGED uiVars
  /\ UNCHANGED viewVars

MetricsNext ==
  \/ MeasureVolume
  \/ MeasureSurfaceArea
  \/ \E other \in ConcatOperands : Concatenate(other)

MetricsSpec == MetricsInit /\ [][MetricsNext]_vars

(***************************************************************************)
(* Slicing as a function of a geometry: getTriangleZPlaneIntersections and *)
(* generateCuttingPaths applied to bounded indexed meshes and to cubes     *)
(***************************************************************************)
\* the most entries of the index array of a sliced mesh over SlicePool
MaxSliceEntries == 3

\* the vertices of the sliced meshes: Z = 0, 1, 1, 2, so that the planes of
\* generateCuttingPaths are 0.1 apart, the tolerance
SlicePool == << <<0, 0, 0>>, <<4, 0, 1>>, <<0, 4, 1>>, <<0, 0, 2>> >>

\* the heights of the planes given to getTriangleZPlaneIntersections: on a
\* vertex, within the tolerance of a vertex, between vertices, outside
PlaneHeights == {I(0), Num(19, 20), I(1), Num(3, 2), I(3)}

\* vertex k (0..7) of the cube of side TargetSize centered at the origin:
\* bit 0 of k selects x, bit 1 selects y, bit 2 selects z
CubeVertex(k) ==
  LET h == TargetSize \div 2
  IN  <<IF k % 2 = 1 THEN h ELSE -h, IF (k \div 2) % 2 = 1 THEN h ELSE -h,
        IF k \div 4 = 1 THEN h ELSE -h>>

CubeVertices == [j \in 1..8 |-> CubeVertex(j - 1)]

\* the six faces of the cube, each as the cycle of its four vertices:
\* bottom, top, front, back, left, right
CubeFaces ==
  << <<0, 1, 3, 2>>, <<4, 5, 7, 6>>, <<0, 1, 5, 4>>, <<2, 3, 7, 6>>, <<0, 2, 6, 4>>,
     <<1, 3, 7, 5>> >>

\* the two triangles of a face, split along one diagonal or the other
FaceTriangles(face, flip) ==
  IF flip THEN <<face[1], face[2], face[4], face[2], face[3], face[4]>>
  ELSE <<face[1], face[2], face[3], face[1], face[3], face[4]>>

\* the index array of the cube with the given diagonal on each face
CubeIndex(flips) ==
  FaceTriangles(CubeFaces[1], flips[1]) \o FaceTriangles(CubeFaces[2], flips[2])
    \o FaceTriangles(CubeFaces[3], flips[3]) \o FaceTriangles(CubeFaces[4], flips[4])
    \o FaceTriangles(CubeFaces[5], flips[5]) \o FaceTriangles(CubeFaces[6], flips[6])

\* the indexed, closed, triangulated cubes of side TargetSize centered at the origin
Cubes ==
  {[position |-> [array |-> Flatten(CubeVertices)], index |-> [array |-> CubeIndex(flips)]] :
     flips \in [1..6 -> BOOLEAN]}

\* indexed meshes over SlicePool (one index value names no vertex), and the cubes
SliceMeshes ==
  {[position |-> [array |-> Flatten(SlicePool)], index |-> [array |-> a]] :
     a \in SeqsUpTo(0..Len(SlicePool), MaxSliceEntries)}
    \cup Cubes

\* the geometry as generateCuttingPaths receives it from parseFile: with the
\* bounding box computed (line 86)
WithBoundingBox(g) ==
  [position |-> g.position, index |-> g.index,
   boundingBox |-> computeBoundingBox(g.position.array)]

SliceInit ==
  /\ ParserIdle
  /\ mesh \in SliceMeshes
  /\ parts = <<>>
  /\ contour = <<>>
  /\ measured = NotMeasured
  /\ UiIdle
  /\ ViewIdle

\* getTriangleZPlaneIntersections on the first triangle of the mesh, as the
\* first iteration of the loop of generateSliceContour calls it
IntersectTriangle(z) ==
  /\ mesh # NoMesh
  /\ measured = NotMeasured
  /\ mesh.index # NoIndex
  /\ Len(mesh.index.array) > 0
  /\ LET t == IndexedTriangle(mesh.position.array, mesh.index.array, 0)
     IN  measured' = [op |-> "getTriangleZPlaneIntersections", z |-> z, triangle |-> t,
                      value |-> getTriangleZPlaneIntersections(t[1], t[2], t[3], z, tolerance)]
  /\ UNCHANGED <<mesh, parts, contour>>
  /\ UNCHANGED parseVars
  /\ UNCHANGED uiVars
  /\ UNCHANGED viewVars

\* generateCuttingPaths on the mesh
SliceMesh ==
  /\ mesh # NoMesh
  /\ measured = NotMeasured
  /\ measured' = [op |-> "generateCuttingPaths",
                  value |-> generateCuttingPaths(WithBoundingBox(mesh))]
  /\ UNCHANGED <<mesh, parts, contour>>
  /\ UNCHANGED parseVars
  /\ UNCHANGED uiVars
  /\ UNCHANGED viewVars

\* generateSliceContour(mesh, z): lines 221-241 collect the points into
\* contour, lines 243-248 return them, stitched when there are more than 2
SliceContour(z) ==
  /\ mesh # NoMesh
  /\ measured = NotMeasured
  /\ contour' = IF mesh.index # NoIndex
                THEN ContourLoop(mesh.position.array, mesh.index.array, z, 0, <<>>)
                ELSE <<>>
  /\ measured' = [op |-> "generateSliceContour", z |-> z,
                  value |-> generateSliceContour(mesh, z)]
  /\ UNCHANGED <<mesh, parts>>
  /\ UNCHANGED parseVars
  /\ UNCHANGED uiVars
  /\ UNCHANGED viewVars

SliceNext ==
  \/ \E z \in PlaneHeights : IntersectTriangle(z)
  \/ SliceMesh
  \/ \E z \in PlaneHeights : SliceContour(z)

SliceSpec == SliceInit /\ [][SliceNext]_vars

(***************************************************************************)
(* sortContourPoints as a function of the collected points                 *)
(***************************************************************************)
\* the most points of a collected pool
MaxPool == 4

\* the points of the pools, all in one plane: from the first, the second and
\* the third are equally far; from the second, the first is nearest
StitchPoints ==
  {Vec(I(0), I(0), I(0)), Vec(I(1), I(0), I(0)), Vec(I(0), I(1), I(0)),
   Vec(I(3), I(0), I(0))}

StitchInit ==
  /\ ParserIdle
  /\ mesh = NoMesh
  /\ parts = <<>>
  /\ contour \in SeqsUpTo(StitchPoints, MaxPool)
  /\ measured = NotMeasured
  /\ UiIdle
  /\ ViewIdle

\* sortContourPoints(contour)
SortContour ==
  /\ measured = NotMeasured
  /\ measured' = [op |-> "sortContourPoints", value |-> sortContourPoints(contour)]
  /\ UNCHANGED <<mesh, parts, contour>>
  /\ UNCHANGED parseVars
  /\ UNCHANGED uiVars
  /\ UNCHANGED viewVars

StitchNext == SortContour

StitchSpec == StitchInit /\ [][StitchNext]_vars

(***************************************************************************)
(* FileUploadPanel and App: the calls of handleFileSelect, each with its   *)
(* own call of fileParser.parseFile, its progress timer and its delayed    *)
(* onModelLoaded                                                           *)
(***************************************************************************)
\* the most calls of handleFileSelect in a behaviour
MaxUploads == 2

\* const maxFileSize = 50 * 1024 * 1024
maxFileSize == 52428800

\* const supportedFormats = ['.stl', '.obj', '.ply']
supportedFormats == {<<".">> \o Stl, <<".">> \o Obj, <<".">> \o Ply}

\* const extension = '.' + file.name.toLowerCase().split('.').pop()
PanelExtension(name) == <<".">> \o SplitPop(toLowerCase(name), <<>>)

FileSizeExceeds == "File size exceeds 50MB limit"

UnsupportedFileFormat == "Unsupported file format"

UnknownError == "Unknown error occurred"

\* a validation that checks the size only
ValidateSizeOnly(f) == IF f.size > maxFileSize THEN FileSizeExceeds ELSE NoError

\* lines 31-42: the error the validation of the file sets, NoError when it passes
Validate(f) ==
  IF f.size > maxFileSize THEN FileSizeExceeds
  ELSE IF PanelExtension(f.name) \notin supportedFormats THEN UnsupportedFileFormat
  ELSE NoError

\* the vertices of the triangle the sample files hold
SampleTriangle == << <<0, 0, 0>>, <<2, 0, 1>>, <<0, 1, 2>> >>

\* the files given to the panel: name, size, and what the loader does with
\* the bytes.  An STL triangle, an indexed PLY triangle of the largest
\* accepted size, an STL file the loader rejects, a file one byte too large
\* and a file of an unsupported format
UploadFiles ==
  {[name |-> <<"m", ".", "s", "t", "l">>, size |-> 134,
    decodes |-> [kind |-> "geometry", position |-> [array |-> Flatten(SampleTriangle)],
                 index |-> NoIndex]],
   [name |-> <<"m", ".", "x", ".", "p", "l", "y">>, size |-> maxFileSize,
    decodes |-> [kind |-> "geometry", position |-> [array |-> Flatten(SampleTriangle)],
                 index |-> [array |-> <<0, 1, 2>>]]],
   [name |-> <<"M", ".", "S", "T", "L">>, size |-> 0, decodes |-> Throw("decode")],
   [name |-> <<"m", ".", "O", "b", "j">>, size |-> maxFileSize + 1, decodes |-> Throw("decode")],
   [name |-> <<"m", ".", "x", "y", "z">>, size |-> 134, decodes |-> Throw("decode")]}

\* the calls of handleFileSelect whose call of parseFile has started
ParseCalls == {u \in 1..Len(uploads) : uploads[u].parseCalled}

\* an extension kept in a field of the shared parser instead of a local
\* constant: every call reads what the latest call of parseFile wrote
ExtensionOfLatestCall(u) ==
  uploads[CHOOSE k \in ParseCalls : \A j \in ParseCalls : j <= k].extension

\* fileParser.ts line 44: the extension the call of parseFile made by upload u
\* switches on, its own local constant
ExtensionOf(u) == uploads[u].extension

\* Math.min(prev + 10, 90)
NextProgress(prev) == IF prev + 10 < 90 THEN prev + 10 ELSE 90

UploadInit ==
  /\ ParserIdle
  /\ mesh = NoMesh
  /\ parts = <<>>
  /\ contour = <<>>
  /\ measured = NotMeasured
  /\ UiIdle
  /\ ViewIdle

\* handleFileSelect(file), called by handleFileInputChange ("Choose File",
\* "Upload New") and by handleDrop; the drop zone accepts a file while
\* isUploading is true, "Upload New" while a model is shown.  Lines 26-50:
\* up to the return of the validation or to the await of parseFile, which
\* itself runs up to its await of file.arrayBuffer()
HandleFileSelect(f) ==
  /\ Len(uploads) < MaxUploads
  /\ LET invalid == Validate(f)
     IN  /\ error' = invalid
         /\ isUploading' = (invalid = NoError)
         /\ uploads' = Append(uploads,
              [file |-> f,
               pc |-> IF invalid = NoError THEN "awaitParse" ELSE "returned",
               interval |-> invalid = NoError,
               parseCalled |-> invalid = NoError,
               extension |-> IF invalid = NoError THEN Extension(f.name) ELSE <<>>,
               loaderCalls |-> <<>>,
               raised |-> "none",
               result |-> Pending])
  /\ uploadProgress' = 0
  /\ removedSince' = FALSE
  /\ UNCHANGED <<timeouts, uploadedModel, showCuttingPaths>>
  /\ UNCHANGED <<parseVars, metricVars>>
  /\ UNCHANGED viewVars

\* the callback of setInterval of upload u
ProgressTick(u) ==
  /\ uploads[u].interval
  /\ uploadProgress' = NextProgress(uploadProgress)
  /\ UNCHANGED <<uploads, isUploading, error, timeouts, uploadedModel, showCuttingPaths,
                 removedSince>>
  /\ UNCHANGED <<parseVars, metricVars>>
  /\ UNCHANGED viewVars

\* lines 50-71: the promise of parseFile has settled with the given
\* completion and handleFileSelect resumes
ResumeAfterParse(u, completion, calls) ==
  LET settled == Settle(completion)
      loadedModel == /\ settled.kind = "return"
                     /\ settled.value.success
                     /\ "model" \in DOMAIN settled.value
  IN  /\ uploads' = [uploads EXCEPT
                       ![u].interval = FALSE,
                       ![u].pc = IF loadedModel THEN "timeout" ELSE "returned",
                       ![u].loaderCalls = calls,
                       ![u].raised = IF completion.kind = "throw" THEN completion.at ELSE "none",
                       ![u].result = IF settled.kind = "return" THEN settled.value ELSE Pending]
      /\ timeouts' = IF loadedModel THEN Append(timeouts, u) ELSE timeouts
      /\ uploadProgress' = IF loadedModel THEN 100 ELSE 0
      /\ isUploading' = IF loadedModel THEN isUploading ELSE FALSE
      /\ error' = IF loadedModel THEN error
                  ELSE IF settled.kind = "return" THEN settled.value.error
                  ELSE UnknownError
      /\ UNCHANGED <<uploadedModel, showCuttingPaths, removedSince>>
      /\ UNCHANGED <<parseVars, metricVars>>
      /\ UNCHANGED viewVars

\* file.arrayBuffer() of the call of parseFile of upload u rejects
UploadReadFails(u) ==
  /\ uploads[u].pc = "awaitParse"
  /\ ResumeAfterParse(u, Throw("arrayBuffer"), <<>>)

\* file.arrayBuffer() of the call of parseFile of upload u resolves: the rest
\* of parseFile runs, then the rest of handleFileSelect
UploadParsed(u) ==
  /\ uploads[u].pc = "awaitParse"
  /\ LET ext == ExtensionOf(u)
     IN  ResumeAfterParse(u, TryBody(ext, uploads[u].file.decodes),
                          IF LoaderFor(ext) = "none" THEN <<>> ELSE <<LoaderFor(ext)>>)

\* lines 56-60 and App.handleModelLoaded: the oldest pending setTimeout
\* callback runs (equal delays: the callbacks run in the order scheduled)
TimeoutFires ==
  /\ timeouts # <<>>
  /\ LET u == Head(timeouts)
     IN  /\ uploadedModel' = uploads[u].result.model
         /\ uploads' = [uploads EXCEPT ![u].pc = "returned"]
  /\ showCuttingPaths' = TRUE
  /\ isUploading' = FALSE
  /\ uploadProgress' = 0
  /\ timeouts' = Tail(timeouts)
  /\ UNCHANGED <<error, removedSince>>
  /\ UNCHANGED <<parseVars, metricVars>>
  /\ UNCHANGED viewVars

\* handleRemoveModel and App.handleModelRemoved; the button is rendered
\* while a model is held
HandleRemoveModel ==
  /\ uploadedModel # NoModel
  /\ uploadedModel' = NoModel
  /\ showCuttingPaths' = FALSE
  /\ error' = NoError
  /\ removedSince' = TRUE
  /\ UNCHANGED <<uploads, isUploading, uploadProgress, timeouts>>
  /\ UNCHANGED <<parseVars, metricVars>>
  /\ UNCHANGED viewVars

UploadNext ==
  \/ \E f \in UploadFiles : HandleFileSelect(f)
  \/ \E u \in 1..Len(uploads) : ProgressTick(u)
  \/ \E u \in 1..Len(uploads) : UploadReadFails(u)
  \/ \E u \in 1..Len(uploads) : UploadParsed(u)
  \/ TimeoutFires
  \/ HandleRemoveModel

UploadSpec == UploadInit /\ [][UploadNext]_vars

(***************************************************************************)
(* The consumers of a ParsedModel: ModelMesh of Model3DViewer,             *)
(* CuttingSimulation and the App.  The model is one object shared by       *)
(* reference: every method called on one of its arrays is modelled by the  *)
(* value it returns and by what it leaves in the receiver, and the action  *)
(* that makes the call stores the receiver back into the model              *)
(***************************************************************************)
\* the most frames of useFrame followed
MaxFrames == 2

\* Model3DViewer.tsx line 28: the angle added to rotation.y per frame
RotationStep == Num(5, 1000)

\* the values of the prop cuttingProgress: 0, 0.5 and 1 after the division
\* by 100, exact in binary floating point
ProgressValues == {0, 50, 100}

\* the keys of shapes3D
Shapes == {"rectangle", "circle", "star", "hexagon", "uploaded"}

\* Math.floor of a finite number
MathFloor(a) == a.n \div a.d

\* Array.prototype.splice(start, end - start): the elements are removed from
\* the receiver and returned
ArraySpliceInPlace(array, start, end) ==
  LET last == IF end < Len(array) THEN end ELSE Len(array)
  IN  [returned |-> SubSeq(array, start + 1, last),
       receiver |-> SubSeq(array, 1, start) \o SubSeq(array, last + 1, Len(array))]

\* Array.prototype.slice(start, end) for 0 <= start: a new array of the
\* elements from start up to end, the receiver as it was
ArraySlice(array, start, end) ==
  LET last == IF end < Len(array) THEN end ELSE Len(array)
  IN  [returned |-> SubSeq(array, start + 1, last), receiver |-> array]

\* path.map(p => new THREE.Vector3(p.x, p.y, p.z)) and
\* .map(v => ({ x: v.x, y: v.y, z: v.z })): a new array of new points
MapPoints(path) ==
  [returned |-> [j \in 1..Len(path) |-> Vec(path[j][1], path[j][2], path[j][3])],
   receiver |-> path]

\* lines 41-54 of the effect of ModelMesh: the lines added for the paths
\* from path k on of the paths to show
RECURSIVE AddLines(_, _, _)
AddLines(paths, k, group) ==
  IF k > Len(paths) THEN group
  ELSE AddLines(paths, k + 1,
         IF Len(paths[k]) > 1 THEN Append(group, MapPoints(paths[k]).returned) ELSE group)

\* pathsToShow with Math.ceil in place of Math.floor
PathsToShowCeiling(cuttingProgress, model) ==
  LET exact == Mul(Div(I(cuttingProgress), I(100)), I(Len(model.cuttingPaths)))
  IN  IF exact.n % exact.d = 0 THEN exact.n \div exact.d ELSE exact.n \div exact.d + 1

\* line 39: pathsToShow
PathsToShow(cuttingProgress, model) ==
  MathFloor(Mul(Div(I(cuttingProgress), I(100)), I(Len(model.cuttingPaths))))

\* CuttingSimulation.tsx lines 129-144: the returned path and the model as
\* the call leaves it
convertModelToCuttingPath(model) ==
  IF Len(model.cuttingPaths) > 0
  THEN LET mapped == MapPoints(model.cuttingPaths[1])
       IN  [returned |-> mapped.returned,
            receiver |-> [model EXCEPT !.cuttingPaths[1] = mapped.receiver]]
  ELSE LET box == model.boundingBox
       IN  [returned |-> <<Vec(box.min[1], box.min[2], box.max[3]),
                           Vec(box.max[1], box.min[2], box.max[3]),
                           Vec(box.max[1], box.max[2], box.max[3]),
                           Vec(box.min[1], box.max[2], box.max[3]),
                           Vec(box.min[1], box.min[2], box.max[3])>>,
            receiver |-> model]

\* the vertices of a mesh of two triangles: one nearly level at the bottom
\* (after the scaling by 0.1 its Z values are 0.1 apart, the tolerance), one
\* spanning the upper half
TwoLevelVertices ==
  << <<0, 0, 0>>, <<1000, 0, 2>>, <<0, 500, 1>>,
     <<0, 0, 1000>>, <<1000, 0, 500>>, <<0, 500, 500>> >>

\* the models given to handleModelLoaded: parseFile's result for an STL
\* triangle (no cutting paths), for an indexed triangle, for an indexed
\* cube and for the mesh of two triangles
ViewModels ==
  {Assemble(Flatten(SampleTriangle), NoIndex),
   Assemble(Flatten(SampleTriangle), [array |-> <<0, 1, 2>>]),
   Assemble(Flatten(CubeVertices), [array |-> CubeIndex([f \in 1..6 |-> FALSE])]),
   Assemble(Flatten(TwoLevelVertices), [array |-> <<0, 1, 2, 3, 4, 5>>])}

ViewInit ==
  /\ ParserIdle
  /\ mesh = NoMesh
  /\ parts = <<>>
  /\ contour = <<>>
  /\ measured = NotMeasured
  /\ UiIdle
  /\ ViewIdle

\* the frame of the variables of the parser, the metrics and the panel
ViewFrame ==
  /\ UNCHANGED <<parseVars, metricVars>>
  /\ UNCHANGED <<uploads, isUploading, uploadProgress, error, timeouts, removedSince>>
  /\ UNCHANGED wireSpeed

\* CuttingSimulation.tsx lines 262-267: the pending timers are not cleared
ResetSimulation ==
  /\ cutProgress' = FloatZero
  /\ isComplete' = FALSE
  /\ showCutPiece' = FALSE
  /\ sparkParticles' = <<>>
  /\ frames' = 0
  /\ UNCHANGED cutPieceTimers

\* App.handleModelLoaded(model) while the App holds no model
HandleModelLoaded(model) ==
  /\ uploadedModel = NoModel
  /\ uploadedModel' = model
  /\ showCuttingPaths' = TRUE
  /\ UNCHANGED viewVars
  /\ ViewFrame

\* App.handleModelRemoved, called by the remove button of FileUploadPanel:
\* the panel is rendered on the parameters tab only (App.tsx line 180), where
\* CuttingSimulation is not rendered.  The App renders without Model3DViewer,
\* whose mesh and lines are dropped with it
HandleModelRemoved ==
  /\ uploadedModel # NoModel
  /\ currentShape = Unmounted
  /\ uploadedModel' = NoModel
  /\ showCuttingPaths' = FALSE
  /\ modelMesh' = NotMounted
  /\ rotationY' = I(0)
  /\ lines' = <<>>
  /\ UNCHANGED <<currentShape, uploadedShape, cutProgress, isComplete, showCutPiece,
                 sparkParticles, isSimulationRunning, cutPieceTimers, frames>>
  /\ ViewFrame

\* the checkbox "Show Cutting Paths" of the App, rendered while a model is held
SetShowCuttingPaths(checked) ==
  /\ uploadedModel # NoModel
  /\ showCuttingPaths' = checked
  /\ UNCHANGED uploadedModel
  /\ UNCHANGED viewVars
  /\ ViewFrame

\* App.handleToggleSimulation, called by the Start / Pause button of
\* CuttingSimulation, which is disabled while isComplete
HandleToggleSimulation ==
  /\ currentShape # Unmounted
  /\ ~isComplete
  /\ isSimulationRunning' = ~isSimulationRunning
  /\ UNCHANGED <<modelMesh, rotationY, lines, currentShape, uploadedShape, cutProgress,
                 isComplete, showCutPiece, sparkParticles, cutPieceTimers, frames>>
  /\ UNCHANGED <<uploadedModel, showCuttingPaths>>
  /\ ViewFrame

\* ModelMesh renders with the given props and its effect runs (lines 32-57):
\* without showCuttingPaths the group of the lines is not rendered
RenderModelMesh(show, cuttingProgress) ==
  /\ uploadedModel # NoModel
  /\ modelMesh' = [showCuttingPaths |-> show, cuttingProgress |-> cuttingProgress]
  /\ IF show
     THEN LET sliced == ArraySlice(uploadedModel.cuttingPaths, 0,
                                   PathsToShow(cuttingProgress, uploadedModel))
          IN  /\ lines' = AddLines(sliced.returned, 1, <<>>)
              /\ uploadedModel' = [uploadedModel EXCEPT !.cuttingPaths = sliced.receiver]
     ELSE /\ lines' = <<>>
          /\ UNCHANGED uploadedModel
  /\ UNCHANGED <<rotationY, currentShape, uploadedShape, cutProgress, isComplete,
                 showCutPiece, sparkParticles, isSimulationRunning, cutPieceTimers, frames>>
  /\ UNCHANGED showCuttingPaths
  /\ ViewFrame

\* the callback of useFrame (lines 25-30): the rotation of the mesh object
\* advances, the geometry attached to it is not written
ViewerFrame ==
  /\ modelMesh # NotMounted
  /\ Lt(rotationY, Mul(I(MaxFrames), RotationStep))
  /\ rotationY' = Add(rotationY, RotationStep)
  /\ UNCHANGED <<modelMesh, lines, currentShape, uploadedShape, cutProgress, isComplete,
                 showCutPiece, sparkParticles, isSimulationRunning, cutPieceTimers, frames>>
  /\ UNCHANGED <<uploadedModel, showCuttingPaths>>
  /\ ViewFrame

\* CuttingSimulation renders: lines 57-68, shapes3D is built and, at the first
\* render, useState takes its initial value
RenderCuttingSimulation ==
  /\ IF uploadedModel # NoModel
     THEN LET converted == convertModelToCuttingPath(uploadedModel)
          IN  /\ uploadedShape' = converted.returned
              /\ uploadedModel' = converted.receiver
     ELSE /\ uploadedShape' = <<>>
          /\ UNCHANGED uploadedModel
  /\ currentShape' = IF currentShape # Unmounted THEN currentShape
                     ELSE IF uploadedModel # NoModel THEN "uploaded" ELSE "rectangle"
  /\ UNCHANGED <<modelMesh, rotationY, lines, cutProgress, isComplete, showCutPiece,
                 sparkParticles, isSimulationRunning, cutPieceTimers, frames>>
  /\ UNCHANGED showCuttingPaths
  /\ ViewFrame

\* the effect of lines 598-606, run after a render of CuttingSimulation
SyncShapeWithModel ==
  /\ currentShape # Unmounted
  /\ \/ /\ uploadedModel # NoModel
        /\ currentShape # "uploaded"
        /\ currentShape' = "uploaded"
     \/ /\ uploadedModel = NoModel
        /\ currentShape = "uploaded"
        /\ currentShape' = "rectangle"
  /\ ResetSimulation
  /\ UNCHANGED <<modelMesh, rotationY, lines, uploadedShape, isSimulationRunning>>
  /\ UNCHANGED <<uploadedModel, showCuttingPaths>>
  /\ ViewFrame

\* handleShapeChange without the early return of line 609
HandleShapeChangeUnchecked(shape) ==
  /\ currentShape # Unmounted
  /\ currentShape' = shape
  /\ ResetSimulation
  /\ isSimulationRunning' = FALSE
  /\ UNCHANGED <<modelMesh, rotationY, lines, uploadedShape>>
  /\ UNCHANGED <<uploadedModel, showCuttingPaths>>
  /\ ViewFrame

\* handleShapeChange(shape), lines 608-613, and App.handleStopSimulation
HandleShapeChange(shape) ==
  /\ currentShape # Unmounted
  /\ ~(shape = "uploaded" /\ uploadedModel = NoModel)
  /\ currentShape' = shape
  /\ ResetSimulation
  /\ isSimulationRunning' = FALSE
  /\ UNCHANGED <<modelMesh, rotationY, lines, uploadedShape>>
  /\ UNCHANGED <<uploadedModel, showCuttingPaths>>
  /\ ViewFrame

\* handleReset, lines 592-595, and App.handleStopSimulation
HandleReset ==
  /\ currentShape # Unmounted
  /\ ResetSimulation
  /\ isSimulationRunning' = FALSE
  /\ UNCHANGED <<modelMesh, rotationY, lines, currentShape, uploadedShape>>
  /\ UNCHANGED <<uploadedModel, showCuttingPaths>>
  /\ ViewFrame

\* the App leaves the simulation tab (App.tsx lines 161 and 292):
\* CuttingSimulation unmounts, its state and refs are dropped and the timers
\* it left pending set the state of a component that is gone
LeaveSimulationTab ==
  /\ currentShape # Unmounted
  /\ currentShape' = Unmounted
  /\ uploadedShape' = <<>>
  /\ cutProgress' = FloatZero
  /\ isComplete' = FALSE
  /\ showCutPiece' = FALSE
  /\ sparkParticles' = <<>>
  /\ frames' = 0
  /\ cutPieceTimers' = 0
  /\ UNCHANGED <<modelMesh, rotationY, lines, isSimulationRunning>>
  /\ UNCHANGED <<uploadedModel, showCuttingPaths>>
  /\ ViewFrame

ViewNext ==
  \/ \E model \in ViewModels : HandleModelLoaded(model)
  \/ HandleModelRemoved
  \/ \E checked \in BOOLEAN : SetShowCuttingPaths(checked)
  \/ HandleToggleSimulation
  \/ \E show \in BOOLEAN : \E cuttingProgress \in ProgressValues :
       RenderModelMesh(show, cuttingProgress)
  \/ ViewerFrame
  \/ RenderCuttingSimulation
  \/ SyncShapeWithModel
  \/ \E shape \in Shapes : HandleShapeChange(shape)
  \/ HandleReset
  \/ LeaveSimulationTab

ViewSpec == ViewInit /\ [][ViewNext]_vars

(***************************************************************************)
(* The animation of CuttingSimulation: the frames of animate, the timer of *)
(* the cut piece and the controls.  A frame runs from the effect of lines  *)
(* 270-590 after every render and from requestAnimationFrame, always with  *)
(* the state of the latest render                                          *)
(***************************************************************************)
\* the most timers followed at once
MaxTimers == 1

\* the positions of the wire speed slider followed (ParameterPanel.tsx line
\* 26: 10 to 500): the default and the fastest
WireSpeeds == {DefaultWireSpeed, 500}

\* the shapes offered to handleShapeChange
SimShapes == {"rectangle", "circle", "uploaded"}

\* the models given to handleModelLoaded: the STL triangle (no cutting
\* paths) and the mesh of two triangles (its first contour has one point)
SimModels ==
  {Assemble(Flatten(SampleTriangle), NoIndex),
   Assemble(Flatten(TwoLevelVertices), [array |-> <<0, 1, 2, 3, 4, 5>>])}

\* line 349: Math.max(0.1, parameters.wireSpeed / 2500).  250 / 2500 rounds to
\* the double nearest to 0.1 and 500 / 2500 to the double nearest to 0.2
Speed(w) == IF w = 500 THEN Fifth ELSE Tenth

\* lines 350-357 without the clamp of line 353
AdvanceUnclamped(progress, speed) ==
  LET sum == FloatAdd(progress, speed)
  IN  [progress |-> sum, complete |-> FloatLe(Hundred, sum)]

\* lines 350-357: cutProgress.current after the addition and whether the
\* branch of completion is taken
Advance(progress, speed) ==
  LET sum == FloatAdd(progress, speed)
  IN  IF FloatLe(Hundred, sum)
      THEN [progress |-> Hundred, complete |-> TRUE]
      ELSE [progress |-> sum, complete |-> FALSE]

\* lines 72-86: generateRectangle3D(0, 0, 0, 80, 60, 20)
Rectangle3D ==
  <<Vec(I(-40), I(-30), I(10)), Vec(I(40), I(-30), I(10)), Vec(I(40), I(30), I(10)),
    Vec(I(-40), I(30), I(10)), Vec(I(-40), I(-30), I(10))>>

\* lines 57-64 and 69: cuttingPath3D.length for the shape and the model of a
\* render.  The circle has segments + 1 = 33 points, the star 2 * 5 + 1 and
\* the hexagon 7
PathPoints(shape, model) ==
  CASE shape = "rectangle" -> Len(Rectangle3D)
    [] shape = "circle"    -> 32 + 1
    [] shape = "star"      -> 2 * 5 + 1
    [] shape = "hexagon"   -> 6 + 1
    [] shape = "uploaded"  ->
         IF model # NoModel THEN Len(convertModelToCuttingPath(model).returned) ELSE 0

\* a particle of sparkParticles.current
Spark == [life |-> "positive"]

\* lines 445-476: what a frame can leave in sparkParticles.current.  A
\* particle is pushed when Math.random() is below parameters.current / 200,
\* and filter drops the particles whose life has run out
SparkOutcomes(canPush, particles) ==
  {<<>>} \cup (IF canPush \/ particles # <<>> THEN {<<Spark>>} ELSE {})

\* one call of animate, lines 277-587
Animate ==
  /\ currentShape # Unmounted
  /\ IF isSimulationRunning /\ FloatLt(cutProgress, Hundred)
     THEN LET advanced == Advance(cutProgress, Speed(wireSpeed))
          IN  /\ cutProgress' = advanced.progress
              /\ frames' = frames + 1
              /\ IF advanced.complete
                 THEN /\ cutPieceTimers < MaxTimers
                      /\ isComplete' = TRUE
                      /\ cutPieceTimers' = cutPieceTimers + 1
                 ELSE UNCHANGED <<isComplete, cutPieceTimers>>
     ELSE UNCHANGED <<cutProgress, frames, isComplete, cutPieceTimers>>
  /\ IF PathPoints(currentShape, uploadedModel) = 0
     THEN UNCHANGED sparkParticles
     ELSE sparkParticles' \in
            SparkOutcomes(isSimulationRunning /\ FloatLt(cutProgress', Hundred),
                          sparkParticles)
  /\ UNCHANGED <<modelMesh, rotationY, lines, currentShape, uploadedShape, showCutPiece,
                 isSimulationRunning>>
  /\ UNCHANGED <<uploadedModel, showCuttingPaths>>
  /\ ViewFrame

\* the callback of line 356 runs, 1000 ms after the frame that scheduled it
CutPieceTimeout ==
  /\ cutPieceTimers > 0
  /\ cutPieceTimers' = cutPieceTimers - 1
  /\ showCutPiece' = TRUE
  /\ UNCHANGED <<modelMesh, rotationY, lines, currentShape, uploadedShape, cutProgress,
                 isComplete, sparkParticles, isSimulationRunning, frames>>
  /\ UNCHANGED <<uploadedModel, showCuttingPaths>>
  /\ ViewFrame

\* App.handleStopSimulation, called by the Stop button
HandleStopSimulation ==
  /\ currentShape # Unmounted
  /\ isSimulationRunning' = FALSE
  /\ UNCHANGED <<modelMesh, rotationY, lines, currentShape, uploadedShape, cutProgress,
                 isComplete, showCutPiece, sparkParticles, cutPieceTimers, frames>>
  /\ UNCHANGED <<uploadedModel, showCuttingPaths>>
  /\ ViewFrame

\* App.handleParameterChange('wireSpeed', value), called by the slider of
\* ParameterPanel on the parameters tab
HandleParameterChange(value) ==
  /\ currentShape = Unmounted
  /\ wireSpeed' = value
  /\ UNCHANGED <<modelMesh, rotationY, lines, currentShape, uploadedShape, cutProgress,
                 isComplete, showCutPiece, sparkParticles, isSimulationRunning,
                 cutPieceTimers, frames>>
  /\ UNCHANGED <<parseVars, metricVars, uiVars>>

SimInit == ViewInit

SimNext ==
  \/ \E model \in SimModels : HandleModelLoaded(model)
  \/ HandleModelRemoved
  \/ \E value \in WireSpeeds : HandleParameterChange(value)
  \/ RenderCuttingSimulation
  \/ SyncShapeWithModel
  \/ LeaveSimulationTab
  \/ HandleToggleSimulation
  \/ HandleStopSimulation
  \/ \E shape \in SimShapes : HandleShapeChange(shape)
  \/ HandleReset
  \/ Animate
  \/ CutPieceTimeout

SimSpec == SimInit /\ [][SimNext]_vars

(***************************************************************************)
(* Properties of parseFile                                                 *)
(***************************************************************************)
Returned == pc = "fulfilled"

\* the decoded geometry of a call whose loader returned one with positions
HasPositions == loaded.kind = "geometry" /\ loaded.position # NoAttribute

\* C1: every value parseFile returns is {success: true, model} without error
\* or {success: false, error} without model.
ResultIsDiscriminated ==
  Returned =>
    \/ result.success = TRUE /\ DOMAIN result = {"success", "model"}
    \/ result.success = FALSE /\ DOMAIN result = {"success", "error"}

SuccessReturned == Returned /\ result.success /\ "model" \in DOMAIN result

\* C2: a call of parseFile never ends with an exception propagated to the
\* caller; when a step raised one (the read of the bytes, the loader), the
\* call returns a success:false value.
ExceptionsBecomeFailures ==
  /\ pc # "rejected"
  /\ (Returned /\ raised # "none") => result = Failure(FailedToParse)

LoaderThrewAndReturned == Returned /\ raised = "decode" /\ loaded.kind = "throw"

\* C3 as stated: with an extension that is none of stl, obj, ply the call
\* returns the unsupported-format failure and invokes no loader.
UnsupportedGivesUnsupportedError ==
  (Returned /\ extension \notin {Stl, Obj, Ply}) =>
    result = Failure(UnsupportedFormat) /\ loaderCalls = <<>>

\* C3 amended: with an extension that is none of stl, obj, ply the call
\* returns a failure without model and invokes no loader; the error is the
\* unsupported-format error when file.arrayBuffer() resolved, and the
\* generic parse failure when it rejected (the bytes are read first).
UnsupportedNeverDecoded ==
  (Returned /\ extension \notin {Stl, Obj, Ply}) =>
    /\ loaderCalls = <<>>
    /\ loaded = NotLoaded
    /\ result = Failure(IF raised = "arrayBuffer" THEN FailedToParse ELSE UnsupportedFormat)

UnsupportedReturned ==
  /\ Returned
  /\ file.name = <<"m", ".", "x", "y", "z">>
  /\ raised = "none"
  /\ result = Failure(UnsupportedFormat)

\* the size of the bounding box of the decoded positions is 0 on every axis
DecodedMaxDimensionIsZero ==
  LET size == BoxSize(computeBoundingBox(loaded.position.array))
  IN  MathMax(MathMax(size[1], size[2]), size[3]) = I(0)

\* C4: a decoded mesh whose bounding box has zero extent on every axis makes
\* parseFile return a failure, without model.
DegenerateGeometryFails ==
  (Returned /\ HasPositions /\ PositionCount(loaded.position.array) > 0
     /\ DecodedMaxDimensionIsZero) =>
    result.success = FALSE /\ "model" \notin DOMAIN result

\* C5: a decoded mesh without position data or with zero vertices makes
\* parseFile return a failure; no success carries metadata.vertices = 0.
MissingPositionsFail ==
  /\ (Returned /\ loaded.kind = "geometry"
        /\ (loaded.position = NoAttribute \/ PositionCount(loaded.position.array) = 0)) =>
       result.success = FALSE /\ "model" \notin DOMAIN result
  /\ (Returned /\ result.success) => result.model.metadata.vertices # 0

\* C6: a decoded indexed mesh with an index >= vertexCount or an index count
\* that is no multiple of 3 never yields a success.
MalformedIndexFails ==
  (Returned /\ HasPositions /\ loaded.index # NoIndex
     /\ ~IndexWellFormed(loaded.index, PositionCount(loaded.position.array))) =>
    result.success = FALSE

\* the box is centered at the origin, min <= max, largest dimension 100
BoxIsNormalized(box) ==
  /\ \A axis \in 1..3 :
       /\ Add(box.min[axis], box.max[axis]) = I(0)
       /\ Le(box.min[axis], box.max[axis])
  /\ MathMax(MathMax(Sub(box.max[1], box.min[1]), Sub(box.max[2], box.min[2])),
             Sub(box.max[3], box.min[3])) = I(TargetSize)

\* C7: the bounding box of every model returned with success:true is
\* centered at the origin, has min <= max and largest dimension 100.
SuccessBoxIsNormalized ==
  (Returned /\ result.success) => BoxIsNormalized(result.model.boundingBox)

(***************************************************************************)
(* Properties of the metrics                                               *)
(***************************************************************************)
VolumeMeasured == measured.op = "calculateVolume"

AreaMeasured == measured.op = "calculateSurfaceArea"

\* the indexed mesh with the second and third vertex of every triangle swapped
ReverseWinding(g) ==
  [position |-> g.position,
   index |-> [array |-> [j \in 1..Len(g.index.array) |->
                           IF j % 3 = 2 THEN g.index.array[j + 1]
                           ELSE IF j % 3 = 0 THEN g.index.array[j - 1]
                           ELSE g.index.array[j]]]]

\* C8: on a well-formed indexed mesh calculateVolume is >= 0, and reversing
\* the winding of every triangle leaves it unchanged.
VolumeNonNegativeAnyWinding ==
  (VolumeMeasured /\ mesh.index # NoIndex /\ MeshWellFormed(mesh)) =>
    /\ Ge(measured.value, I(0))
    /\ calculateVolume(ReverseWinding(mesh)) = measured.value

NegativeSumMeasured ==
  /\ VolumeMeasured
  /\ mesh.index # NoIndex /\ MeshWellFormed(mesh)
  /\ TriangleCount(mesh) = 2
  /\ Lt(VolumeIndexedLoop(mesh.position.array, mesh.index.array, 0, I(0)), I(0))
  /\ Gt(measured.value, I(0))

\* vertex v (from 0) of a mesh
MeshVertex(g, v) ==
  <<g.position.array[3 * v + 1], g.position.array[3 * v + 2], g.position.array[3 * v + 3]>>

\* triangle k (from 1) of a well-formed mesh: the k-th index triple, or the
\* k-th group of three consecutive vertices
MeshTriangle(g, k) ==
  IF g.index # NoIndex
  THEN <<MeshVertex(g, g.index.array[3 * k - 2]), MeshVertex(g, g.index.array[3 * k - 1]),
         MeshVertex(g, g.index.array[3 * k])>>
  ELSE <<MeshVertex(g, 3 * k - 3), MeshVertex(g, 3 * k - 2), MeshVertex(g, 3 * k - 1)>>

\* dot(a, cross(b, c)) as the determinant of the rows a, b, c
TripleProduct(a, b, c) ==
  Add(Sub(Mul(a[1], Sub(Mul(b[2], c[3]), Mul(b[3], c[2]))),
          Mul(a[2], Sub(Mul(b[1], c[3]), Mul(b[3], c[1])))),
      Mul(a[3], Sub(Mul(b[1], c[2]), Mul(b[2], c[1]))))

\* the sum of dot(a, cross(b, c)) / 6 over the triangles 1..k
RECURSIVE TetrahedronSum(_, _)
TetrahedronSum(g, k) ==
  IF k = 0 THEN I(0)
  ELSE LET t == MeshTriangle(g, k)
       IN  Add(TetrahedronSum(g, k - 1), Div(TripleProduct(t[1], t[2], t[3]), I(6)))

\* C9: on a mesh of whole triangles calculateVolume is the absolute value of
\* the sum of dot(a, cross(b, c)) / 6 over the triangles, each index triple
\* or each group of three consecutive vertices counted once.
VolumeIsAbsOfTetrahedronSum ==
  (VolumeMeasured /\ MeshWellFormed(mesh)) =>
    measured.value = MathAbs(TetrahedronSum(mesh, TriangleCount(mesh)))

TwoTrianglesMeasured ==
  /\ VolumeMeasured
  /\ MeshWellFormed(mesh)
  /\ mesh.index = NoIndex
  /\ TriangleCount(mesh) = 2
  /\ measured.value = I(2)

\* C10: the surface area of the concatenation of two meshes is the sum of
\* the surface areas of the two meshes.
AreaIsAdditive ==
  (AreaMeasured /\ parts # <<>>) =>
    measured.value = Add(calculateSurfaceArea(parts[1]), calculateSurfaceArea(parts[2]))

ConcatenationMeasured ==
  /\ AreaMeasured
  /\ parts # <<>>
  /\ mesh.index # NoIndex
  /\ Gt(calculateSurfaceArea(parts[1]), I(0))
  /\ Gt(calculateSurfaceArea(parts[2]), I(0))
  /\ measured.value = I(7)

(***************************************************************************)
(* Properties of the slicing                                               *)
(***************************************************************************)
PathsMeasured == measured.op = "generateCuttingPaths"

IntersectionsMeasured == measured.op = "getTriangleZPlaneIntersections"

\* z_i = minZ + i * (maxZ - minZ) / sliceCount
SampledHeight(box, i) ==
  Add(box.min[3], Div(Mul(I(i), Sub(box.max[3], box.min[3])), I(sliceCount)))

NonEmptyContour(path) == path # <<>>

\* C11: generateCuttingPaths samples the sliceCount + 1 heights z_i, i from 0
\* to sliceCount; its output is the sequence of the contours of these heights
\* that are non-empty, in order: no empty contour, at most sliceCount + 1 entries.
CuttingPathsAreTheNonEmptyContours ==
  PathsMeasured =>
    LET g == WithBoundingBox(mesh)
        contours == [j \in 1..(sliceCount + 1) |->
                       generateSliceContour(g, SampledHeight(g.boundingBox, j - 1))]
    IN  /\ measured.value = SelectSeq(contours, NonEmptyContour)
        /\ Len(measured.value) <= sliceCount + 1
        /\ \A j \in 1..Len(measured.value) : measured.value[j] # <<>>

SparsePathsMeasured ==
  /\ PathsMeasured
  /\ mesh.index # NoIndex
  /\ mesh.index.array = <<0, 1, 2>>
  /\ Len(measured.value) = 12
  /\ measured.value[12][1][3] = Num(11, 10)

\* the planes (0..sliceCount) at whose height the first point of the path lies
PlanesOf(box, path) == {i \in 0..sliceCount : path[1][3] = SampledHeight(box, i)}

\* C12: all points of a contour of the cutting paths have the same Z, and
\* that Z is the height of the plane the contour was computed for: the
\* contours are those of planes of increasing index.
ContoursLieInTheirPlanes ==
  PathsMeasured =>
    LET box == computeBoundingBox(mesh.position.array)
        paths == measured.value
    IN  /\ \A j \in 1..Len(paths) :
             /\ IsFinite(paths[j][1][3])
             /\ \A k \in 1..Len(paths[j]) : paths[j][k][3] = paths[j][1][3]
             /\ PlanesOf(box, paths[j]) # {}
        /\ \A j \in 1..(Len(paths) - 1) :
             \A i \in PlanesOf(box, paths[j]) : \A n \in PlanesOf(box, paths[j + 1]) : i < n

NearVertexPlaneSliced ==
  /\ PathsMeasured
  /\ mesh.index # NoIndex
  /\ mesh.index.array = <<1, 2, 3>>
  /\ Len(measured.value) = 12
  /\ measured.value[1][1][3] = Num(9, 10)

\* C14: the cutting paths of an indexed closed cube of side 100 centered at
\* the origin hold a contour for each of the heights i = 1..19, and the
\* contours of the two extreme heights (i = 0, i = sliceCount), if any, have
\* at most 2 points.
CubeSlicesDegenerateAtExtremes ==
  (PathsMeasured /\ mesh \in Cubes) =>
    LET box == computeBoundingBox(mesh.position.array)
        paths == measured.value
    IN  /\ \A i \in 1..(sliceCount - 1) :
             \E j \in 1..Len(paths) : paths[j][1][3] = SampledHeight(box, i)
        /\ \A j \in 1..Len(paths) :
             paths[j][1][3] \in {SampledHeight(box, 0), SampledHeight(box, sliceCount)}
               => Len(paths[j]) <= 2

\* the plane Z = z meets the edge, which is not parallel to it
EdgeCrosses(start, end, z) ==
  /\ start[3] # end[3]
  /\ Le(MathMin(start[3], end[3]), z)
  /\ Le(z, MathMax(start[3], end[3]))

CrossingEdges(t, z) ==
  {e \in {<<1, 2>>, <<2, 3>>, <<3, 1>>} : EdgeCrosses(t[e[1]], t[e[2]], z)}

\* C20: getTriangleZPlaneIntersections returns 0, 1 or 2 points, never 3,
\* and 2 exactly when two of the three edges cross the plane.
AtMostTwoIntersections ==
  IntersectionsMeasured =>
    /\ Len(measured.value) <= 2
    /\ (Len(measured.value) = 2)
         <=> (Cardinality(CrossingEdges(measured.triangle, measured.z)) = 2)

\* C13: a parse whose decoded geometry has no index, in particular every
\* successful parse of an STL file, returns a model without cutting paths.
NonIndexedYieldsNoPaths ==
  (Returned /\ result.success /\ (loaded.index = NoIndex \/ loaderCalls = <<"stlLoader">>)) =>
    result.model.cuttingPaths = <<>>

StlTriangleParsed ==
  /\ Returned /\ result.success
  /\ loaderCalls = <<"stlLoader">>
  /\ result.model.metadata.vertices = 3
  /\ Gt(result.model.metadata.surfaceArea, I(0))
  /\ result.model.cuttingPaths = <<>>

(***************************************************************************)
(* Properties of the upload panel                                          *)
(***************************************************************************)
\* every call of handleFileSelect has run to its end, its delayed callback included
AllUploadsFinished ==
  /\ timeouts = <<>>
  /\ \A u \in 1..Len(uploads) : uploads[u].pc = "returned"

\* the call of parseFile of upload u returned a model
ParsedAModel(u) ==
  /\ uploads[u].result # Pending
  /\ uploads[u].result.success
  /\ "model" \in DOMAIN uploads[u].result

\* C16: once all uploads have finished, the model the App holds is the one
\* parsed from the most recently selected file, whatever the order in which
\* the parses and the delayed callbacks completed.
LatestUploadWins ==
  (Len(uploads) >= 2 /\ AllUploadsFinished /\ ~removedSince /\ ParsedAModel(Len(uploads))) =>
    uploadedModel = uploads[Len(uploads)].result.model

\* the result the call parseFile(f) returns when no other call is made
ResultAlone(f, readFailed) ==
  Settle(IF readFailed THEN Throw("arrayBuffer")
         ELSE TryBody(Extension(f.name), f.decodes)).value

\* the loaders the call parseFile(f) invokes when no other call is made
LoaderCallsAlone(f, readFailed) ==
  IF readFailed \/ LoaderFor(Extension(f.name)) = "none" THEN <<>>
  ELSE <<LoaderFor(Extension(f.name))>>

\* C17: overlapping calls of parseFile on the shared fileParser are
\* independent: the step in which a call returns gives it the result, and
\* the loader, it would have alone; no step changes the extension of a call
\* that is awaiting, or the result of a call that has returned.
ParseCallsAreIndependent ==
  [][\A u \in 1..Len(uploads) :
       /\ (uploads[u].pc = "awaitParse" /\ uploads'[u].pc # "awaitParse") =>
            /\ uploads'[u].result
                 = ResultAlone(uploads[u].file, uploads'[u].raised = "arrayBuffer")
            /\ uploads'[u].loaderCalls
                 = LoaderCallsAlone(uploads[u].file, uploads'[u].raised = "arrayBuffer")
       /\ (uploads[u].pc = "awaitParse" /\ uploads'[u].pc = "awaitParse") =>
            uploads'[u].extension = Extension(uploads[u].file.name)
       /\ (uploads[u].parseCalled /\ uploads[u].pc # "awaitParse") =>
            /\ uploads'[u].result = uploads[u].result
            /\ uploads'[u].loaderCalls = uploads[u].loaderCalls]_vars

OverlappingCallsReturned ==
  /\ Len(uploads) = 2
  /\ uploads[1].parseCalled /\ uploads[2].parseCalled
  /\ uploads[1].extension = Stl /\ uploads[2].extension = Ply
  /\ uploads[1].pc = "awaitParse"
  /\ ParsedAModel(2)
  /\ uploads[2].loaderCalls = <<"plyLoader">>

\* the file exceeds 50 MB or its lower-cased extension is none of stl, obj, ply
Unacceptable(f) == f.size > 50 * 1024 * 1024 \/ Extension(f.name) \notin {Stl, Obj, Ply}

\* C18: a call of handleFileSelect with a file over 50 MB or of another
\* extension than .stl, .obj, .ply (in any case of letters) returns without
\* calling parseFile and without starting a timer: error is set, isUploading
\* is false, the model and the other uploads are unchanged.  Any other file
\* is accepted: parseFile is called.
InvalidFileIsRejected ==
  [][\A f \in UploadFiles :
       (Len(uploads') = Len(uploads) + 1 /\ uploads'[Len(uploads')].file = f) =>
         LET call == uploads'[Len(uploads')]
         IN  IF Unacceptable(f)
             THEN /\ error' # NoError
                  /\ isUploading' = FALSE
                  /\ ~call.parseCalled /\ ~call.interval /\ call.pc = "returned"
                  /\ uploadedModel' = uploadedModel
                  /\ timeouts' = timeouts
                  /\ SubSeq(uploads', 1, Len(uploads)) = uploads
             ELSE /\ call.parseCalled /\ call.pc = "awaitParse"
                  /\ isUploading' = TRUE
                  /\ error' = NoError]_vars

OversizedFileRejected ==
  /\ Len(uploads) = 2
  /\ uploads[1].file.name = <<"M", ".", "S", "T", "L">> /\ uploads[1].parseCalled
  /\ uploads[2].file.size = maxFileSize + 1
  /\ uploads[2].pc = "returned" /\ ~uploads[2].parseCalled /\ ~uploads[2].interval
  /\ error = FileSizeExceeds
  /\ isUploading = FALSE

(***************************************************************************)
(* Properties of the consumers of the model                                *)
(***************************************************************************)
\* C19: a ParsedModel is immutable once the App holds it: no step of the
\* viewer, the cutting simulation or the App (a render, a frame of the
\* rotation, a change of the progress or of the shape, a reset) changes its
\* geometry, its bounding box, its cuttingPaths or its metadata; the model
\* the App holds stays the same value until it is removed
ParsedModelIsImmutable ==
  [][uploadedModel # NoModel => (uploadedModel' = uploadedModel \/ uploadedModel' = NoModel)]_vars

\* the viewer has drawn half of the contours of a model and rotated its
\* mesh, and the simulation shows the path converted from the model
ModelDrawnRotatedAndConverted ==
  /\ uploadedModel # NoModel
  /\ modelMesh # NotMounted
  /\ modelMesh.showCuttingPaths
  /\ modelMesh.cuttingProgress = 50
  /\ lines # <<>>
  /\ Len(lines) < Len(uploadedModel.cuttingPaths)
  /\ Gt(rotationY, I(0))
  /\ currentShape = "uploaded"
  /\ uploadedShape = uploadedModel.cuttingPaths[1]

(***************************************************************************)
(* Properties of the stitching                                             *)
(***************************************************************************)
SortMeasured == measured.op = "sortContourPoints"

\* the number of occurrences of x in seq
Occurrences(seq, x) == Cardinality({j \in DOMAIN seq : seq[j] = x})

\* the square of the Euclidean distance of a and b, exactly
DistanceSquared(a, b) == Dot(VSub(a, b), VSub(a, b))

\* C21: for a pool of 3 or more points, sortContourPoints returns a
\* permutation of the pool (same length, every point as often as in the pool)
\* that starts with the first collected point and in which each later point
\* is as near to its predecessor as any point not yet placed
StitchedIsGreedyPermutation ==
  (SortMeasured /\ Len(contour) >= 3) =>
    LET sorted == measured.value
    IN  /\ Len(sorted) = Len(contour)
        /\ \A j \in DOMAIN contour :
             Occurrences(sorted, contour[j]) = Occurrences(contour, contour[j])
        /\ sorted[1] = contour[1]
        /\ \A k \in 2..Len(sorted) : \A j \in k..Len(sorted) :
             Le(DistanceSquared(sorted[k - 1], sorted[k]),
                DistanceSquared(sorted[k - 1], sorted[j]))

\* four different points were stitched into another order than collected
FourPointsReordered ==
  /\ SortMeasured
  /\ Len(contour) = 4
  /\ \A j \in 1..4 : Occurrences(contour, contour[j]) = 1
  /\ measured.value # contour

\* the position in remaining of the point the rule of the nearest point
\* selects: at the least distance from current and, of those, the earliest
EarliestNearest(current, remaining) ==
  CHOOSE i \in DOMAIN remaining :
    /\ \A j \in DOMAIN remaining :
         Le(DistanceSquared(current, remaining[i]), DistanceSquared(current, remaining[j]))
    /\ \A j \in 1..(i - 1) :
         Lt(DistanceSquared(current, remaining[i]), DistanceSquared(current, remaining[j]))

\* the sequence the rule yields from the points placed and the pool left
RECURSIVE StitchByRule(_, _)
StitchByRule(sorted, remaining) ==
  IF remaining = <<>> THEN sorted
  ELSE LET i == EarliestNearest(sorted[Len(sorted)], remaining)
       IN  StitchByRule(Append(sorted, remaining[i]),
                        SubSeq(remaining, 1, i - 1) \o SubSeq(remaining, i + 1, Len(remaining)))

\* C26: sortContourPoints breaks ties of the distance by the collection
\* order: of the points not yet placed that are equally near the current
\* point, the one earliest in the remaining pool is placed next, so the
\* result is the one sequence this rule determines
TiesGoToTheEarliestPoint ==
  (SortMeasured /\ Len(contour) >= 3) =>
    measured.value = StitchByRule(<<contour[1]>>, Tail(contour))

\* the two points after the first are different, equally far from it and
\* nearer than any other, and the earlier one was placed second
TieAtTheSecondPoint ==
  /\ SortMeasured
  /\ Len(contour) >= 3
  /\ contour[2] # contour[3]
  /\ DistanceSquared(contour[1], contour[2]) = DistanceSquared(contour[1], contour[3])
  /\ \A j \in 2..Len(contour) :
       Le(DistanceSquared(contour[1], contour[2]), DistanceSquared(contour[1], contour[j]))
  /\ measured.value[2] = contour[2]

(***************************************************************************)
(* Properties of the contours                                              *)
(***************************************************************************)
ContourMeasured == measured.op = "generateSliceContour"

\* the points the edges of the triangles from triangle k on give, triangle
\* after triangle, each triangle's edges in the order v1-v2, v2-v3, v3-v1
RECURSIVE InCollectionOrder(_, _, _)
InCollectionOrder(g, z, k) ==
  IF 3 * k >= Len(g.index.array) THEN <<>>
  ELSE LET t == IndexedTriangle(g.position.array, g.index.array, 3 * k)
       IN  EdgeIntersection(t[1], t[2], z, tolerance)
             \o EdgeIntersection(t[2], t[3], z, tolerance)
             \o EdgeIntersection(t[3], t[1], z, tolerance)
             \o InCollectionOrder(g, z, k + 1)

\* C22: when fewer than 3 points are collected at a height,
\* generateSliceContour returns them unchanged, in collection order: triangle
\* after triangle, and within a triangle edge v1-v2, then v2-v3, then v3-v1
FewPointsKeepCollectionOrder ==
  (ContourMeasured /\ Len(contour) < 3) =>
    /\ measured.value = contour
    /\ measured.value = InCollectionOrder(mesh, measured.z, 0)

\* two different points were collected and returned
TwoPointsReturned ==
  /\ ContourMeasured
  /\ Len(contour) = 2
  /\ contour[1] # contour[2]
  /\ measured.value = contour

\* the height of a contour: the Z of its first point
HeightOf(path) == path[1][3]

\* C23: the contours of cuttingPaths are in the order of their sampling
\* index: of two contours the earlier has a height not greater than the later
\* one, smaller when maxZ > minZ; no sampled height gave more than one
\* contour, so there are at most sliceCount + 1 of them
ContoursInSamplingOrder ==
  PathsMeasured =>
    LET box == computeBoundingBox(mesh.position.array)
        paths == measured.value
    IN  /\ Len(paths) <= sliceCount + 1
        /\ \A j \in 1..Len(paths) : \A k \in (j + 1)..Len(paths) :
             /\ Le(HeightOf(paths[j]), HeightOf(paths[k]))
             /\ Lt(box.min[3], box.max[3]) => Lt(HeightOf(paths[j]), HeightOf(paths[k]))
        /\ \A i \in 0..sliceCount :
             Cardinality({j \in 1..Len(paths) : HeightOf(paths[j]) = SampledHeight(box, i)}) <= 1

\* a cube was sliced and every sampled height gave a contour
CubeSlicedAtEveryHeight ==
  /\ PathsMeasured
  /\ mesh \in Cubes
  /\ Len(measured.value) = sliceCount + 1

\* p has its X and Y within the ranges the two endpoints span
WithinEdgeRange(p, start, end) ==
  /\ Le(MathMin(start[1], end[1]), p[1]) /\ Le(p[1], MathMax(start[1], end[1]))
  /\ Le(MathMin(start[2], end[2]), p[2]) /\ Le(p[2], MathMax(start[2], end[2]))

\* C25: every point getTriangleZPlaneIntersections emits lies on an edge of
\* the triangle, between the edge's endpoints: its X and Y are within the
\* ranges the endpoints of that edge span
IntersectionsLieOnEdges ==
  IntersectionsMeasured =>
    LET t == measured.triangle
    IN  \A j \in 1..Len(measured.value) :
          \/ WithinEdgeRange(measured.value[j], t[1], t[2])
          \/ WithinEdgeRange(measured.value[j], t[2], t[3])
          \/ WithinEdgeRange(measured.value[j], t[3], t[1])

(***************************************************************************)
(* Properties of the viewer                                                *)
(***************************************************************************)
\* the first floor(p / 100 * n) of the n contours of the model
FirstContours(model, p) ==
  SubSeq(model.cuttingPaths, 1, (p * Len(model.cuttingPaths)) \div 100)

\* path.length > 1
DrawableContour(path) == Len(path) > 1

\* ModelMesh is rendered with showCuttingPaths
ShowsPaths(props) == props # NotMounted /\ props.showCuttingPaths

RemovedModelStaysRemoved == removedSince => uploadedModel = NoModel

(***************************************************************************)
(* Properties of the animation                                             *)
(***************************************************************************)
\* C28: in every reachable state of the simulation, showCutPiece implies
\* isComplete and cutProgress = 100, also when Reset or a shape change falls
\* in the second between the completion and the callback of the timer
CutPieceOnlyWhenComplete ==
  showCutPiece => isComplete /\ cutProgress = Hundred

\* a frame has advanced cutProgress
ProgressFrame == frames' = frames + 1

\* the exact sum cutProgress + speed and cutProgress' differ by at most half
\* a unit in the last place of cutProgress'
RoundedSumOf(before, speed, after) ==
  LET exact == ExactSum(before, speed)
      half  == Ulp(after) \div 2
  IN  /\ FloatLe(exact, Carry(after[1], after[2], after[3] + half))
      /\ FloatLe(after, Carry(exact[1], exact[2], exact[3] + half))

\* what C29 says of one step, with the given bound on the number of frames
ProgressRule(bound) ==
  /\ ProgressFrame =>
       /\ isSimulationRunning /\ FloatLt(cutProgress, Hundred)
       /\ FloatLt(cutProgress, cutProgress')
       /\ FloatLe(cutProgress', Hundred)
       /\ FloatLt(cutProgress', Hundred) =>
            /\ RoundedSumOf(cutProgress, Speed(wireSpeed), cutProgress')
            /\ isComplete' = isComplete
       /\ cutProgress' = Hundred =>
            /\ FloatLe(Hundred, FloatAdd(cutProgress, Speed(wireSpeed)))
            /\ isComplete'
       /\ frames' <= bound
  /\ cutProgress = Hundred => cutProgress' \in {Hundred, FloatZero}
  /\ cutProgress' # cutProgress /\ ~ProgressFrame => cutProgress' = FloatZero /\ frames' = 0

\* C29 as stated: every frame run while isRunning and below 100 adds
\* max(0.1, wireSpeed / 2500), the sum is clamped to 100, 100 is reached with
\* isComplete after at most 1000 frames, and cutProgress then stays until a
\* reset
ReachesHundredInThousandFrames == [][ProgressRule(1000)]_vars

\* C29, amended: the same with at most 1001 frames, the sum being the
\* rounded sum of binary floating point
ReachesHundredIn1001Frames == [][ProgressRule(1001)]_vars

\* the cut completes on frame 1001 at the default wire speed
CompletedOnFrame1001 ==
  /\ frames = 1001
  /\ cutProgress = Hundred
  /\ isComplete
  /\ wireSpeed = DefaultWireSpeed

\* C30: whenever a frame of the simulation can run, the active cutting path
\* has a point: currentShape is never 'uploaded' without a model, and the
\* path of an uploaded model is its first contour or the rectangle of five
\* points of its bounding box
ActivePathHasAPoint ==
  currentShape # Unmounted =>
    /\ ~(currentShape = "uploaded" /\ uploadedModel = NoModel)
    /\ PathPoints(currentShape, uploadedModel) >= 1
    /\ currentShape = "uploaded" =>
         LET path == convertModelToCuttingPath(uploadedModel).returned
             box  == uploadedModel.boundingBox
         IN  IF Len(uploadedModel.cuttingPaths) > 0
             THEN path = uploadedModel.cuttingPaths[1]
             ELSE /\ Len(path) = 5
                  /\ path[1] = path[5]
                  /\ \A j \in 1..5 : path[j][3] = box.max[3]

\* frames have run on the single point of the first contour of an uploaded
\* model
FramesOnASinglePoint ==
  /\ frames > 0
  /\ currentShape = "uploaded"
  /\ PathPoints(currentShape, uploadedModel) = 1
====
